---------------------------- MODULE Spec2Model ----------------------------
(***************************************************************************)
(* Model of the dual-document diff-and-highlight engine of                 *)
(* backend/app/main.py: _tokenize_text, _prepare_html_tokens, the difflib  *)
(* opcode aligner used by _build_diff, the opcode classifier of            *)
(* _build_diff, _summarize_location and _apply_highlights.                 *)
(*                                                                         *)
(* Characters are Unicode codepoints (integers), a text is a sequence of   *)
(* codepoints and a token is a non-empty text.  A parsed document is a     *)
(* sequence of block elements; a block has a tag ("" for text that sits    *)
(* directly under the document root) and a sequence of children, each a    *)
(* text node that is either a direct child (wrap = "") or the only child   *)
(* of an inline element (wrap = "b").                                      *)
(***************************************************************************)
EXTENDS Integers, Sequences, FiniteSets, TLC

(***************************************************************************)
(* Bound of the enumerated inputs: the characters of a document.           *)
(***************************************************************************)
MaxChars == 3

(***************************************************************************)
(* Generic helpers.                                                        *)
(***************************************************************************)
Max(a, b) == IF a >= b THEN a ELSE b

Slice(s, lo, hi) == [n \in 1..Max(hi - lo, 0) |-> s[lo + n]]

RECURSIVE Join(_)
Join(ss) == IF ss = <<>> THEN <<>> ELSE Head(ss) \o Join(Tail(ss))

(***************************************************************************)
(* Character classes.                                                      *)
(***************************************************************************)
SpaceChars ==
    (9..13) \cup (28..32) \cup {133, 160, 5760} \cup (8192..8202)
    \cup {8232, 8233, 8239, 8287, 12288}

PunctChars ==
    {33, 34, 35, 37, 38, 39, 40, 41, 42, 44, 45, 46, 47, 58, 59, 63, 64,
     91, 92, 93, 95, 123, 125, 161, 167, 171, 182, 183, 187, 191}
    \cup (8208..8231) \cup (8240..8259) \cup (8261..8273) \cup (8275..8286)
    \cup (12289..12291) \cup (12296..12305) \cup (12308..12319)
    \cup {12336, 12349, 65281, 65292, 65306, 65307}

isspace(char) == char \in SpaceChars

_is_cjk_char(char) ==
    \/ 19968 <= char /\ char <= 40959
    \/ 13312 <= char /\ char <= 19903
    \/ 131072 <= char /\ char <= 173791
    \/ 173824 <= char /\ char <= 177983
    \/ 177984 <= char /\ char <= 178207
    \/ 178208 <= char /\ char <= 183983
    \/ 63744 <= char /\ char <= 64255

_is_punctuation(char) == char \in PunctChars

(***************************************************************************)
(* _tokenize_text: one pass over the characters with a run buffer.         *)
(***************************************************************************)
\* the two lists are values at every step of the loop, not expressions
\* that grow with the text (always true)
Evaluated(tokens, buffer) == tokens = tokens /\ buffer = buffer

\* flush_buffer() clearing the buffer without appending the run
flush_buffer_dropped(tokens, buffer) == tokens

flush_buffer(tokens, buffer) ==
    IF buffer # <<>> THEN Append(tokens, buffer) ELSE tokens

\* the loop emitting a CJK or punctuation character without flush_buffer()
RECURSIVE TokenizeFrom_unflushed(_, _, _, _)
TokenizeFrom_unflushed(text, i, tokens, buffer) ==
    IF i > Len(text) \/ ~Evaluated(tokens, buffer) THEN flush_buffer(tokens, buffer)
    ELSE LET char == text[i] IN
         IF isspace(char)
         THEN TokenizeFrom_unflushed(text, i + 1,
                           Append(flush_buffer(tokens, buffer), <<char>>), <<>>)
         ELSE IF _is_cjk_char(char) \/ _is_punctuation(char)
         THEN TokenizeFrom_unflushed(text, i + 1, Append(tokens, <<char>>), buffer)
         ELSE TokenizeFrom_unflushed(text, i + 1, tokens, Append(buffer, char))

RECURSIVE TokenizeFrom(_, _, _, _)
TokenizeFrom(text, i, tokens, buffer) ==
    IF i > Len(text) \/ ~Evaluated(tokens, buffer) THEN flush_buffer(tokens, buffer)
    ELSE LET char == text[i] IN
         IF isspace(char)
         THEN TokenizeFrom(text, i + 1,
                           Append(flush_buffer(tokens, buffer), <<char>>), <<>>)
         ELSE IF _is_cjk_char(char) \/ _is_punctuation(char)
         THEN TokenizeFrom(text, i + 1,
                           Append(flush_buffer(tokens, buffer), <<char>>), <<>>)
         ELSE TokenizeFrom(text, i + 1, tokens, Append(buffer, char))

_tokenize_text(text) == TokenizeFrom(text, 1, <<>>, <<>>)

(***************************************************************************)
(* The parsed tree.  A node reference is <<block index, child index>>;     *)
(* soup.descendants visits the text nodes in this order.                   *)
(***************************************************************************)
RECURSIVE LeafRefsFrom(_, _, _)
LeafRefsFrom(html, b, c) ==
    IF b > Len(html) THEN <<>>
    ELSE IF c > Len(html[b].children) THEN LeafRefsFrom(html, b + 1, 1)
    ELSE <<(<<b, c>>)>> \o LeafRefsFrom(html, b, c + 1)

descendants(html) == LeafRefsFrom(html, 1, 1)

NodeText(html, ref) == html[ref[1]].children[ref[2]].text

\* the flattener with spans counted from the start of their own leaf
RECURSIVE PrepareFrom_leaf_relative(_, _, _, _, _)
PrepareFrom_leaf_relative(html, refs, n, tokens, node_infos) ==
    IF n > Len(refs) THEN [tokens |-> tokens, node_infos |-> node_infos]
    ELSE LET text == NodeText(html, refs[n])
             parts == _tokenize_text(text)
         IN IF text = <<>> \/ parts = <<>>
            THEN PrepareFrom_leaf_relative(html, refs, n + 1, tokens, node_infos)
            ELSE PrepareFrom_leaf_relative(html, refs, n + 1, tokens \o parts,
                     Append(node_infos,
                            [node |-> refs[n], tokens |-> parts,
                             start |-> 0, end |-> Len(parts)]))

(***************************************************************************)
(* _prepare_html_tokens: the flat token sequence and the leaf spans.       *)
(***************************************************************************)
RECURSIVE PrepareFrom(_, _, _, _, _)
PrepareFrom(html, refs, n, tokens, node_infos) ==
    IF n > Len(refs) THEN [tokens |-> tokens, node_infos |-> node_infos]
    ELSE LET text == NodeText(html, refs[n])
             parts == _tokenize_text(text)
         IN IF text = <<>> THEN PrepareFrom(html, refs, n + 1, tokens, node_infos)
            ELSE IF parts = <<>>
            THEN PrepareFrom(html, refs, n + 1, tokens, node_infos)
            ELSE PrepareFrom(html, refs, n + 1, tokens \o parts,
                     Append(node_infos,
                            [node |-> refs[n], tokens |-> parts,
                             start |-> Len(tokens),
                             end |-> Len(tokens) + Len(parts)]))

_prepare_html_tokens(html) == PrepareFrom(html, descendants(html), 1, <<>>, <<>>)

(***************************************************************************)
(* difflib.SequenceMatcher(None, a, b) without junk: find_longest_match,   *)
(* get_matching_blocks and get_opcodes.  Indices are 0-based as in the     *)
(* code; a[i] of the code is a[i + 1] here.                                *)
(***************************************************************************)
\* length of the common run of a and b that ends at a[i], b[j] and stays
\* inside the window [alo, ..) x [blo, ..): j2len of find_longest_match
RECURSIVE j2len(_, _, _, _, _, _)
j2len(a, b, alo, blo, i, j) ==
    IF i < alo \/ j < blo THEN 0
    ELSE IF a[i + 1] # b[j + 1] THEN 0
    ELSE 1 + j2len(a, b, alo, blo, i - 1, j - 1)

\* find_longest_match scans i ascending, then j ascending, and a strictly
\* longer run replaces the best one: the result is the longest run, and among
\* the longest the first one met, the one with the least i, then the least j
RunSizes(a, b, alo, ahi, blo, bhi) ==
    {j2len(a, b, alo, blo, i, j) : i \in alo..(ahi - 1), j \in blo..(bhi - 1)}

Largest(sizes) == CHOOSE k \in sizes \cup {0} : \A m \in sizes : m <= k

FirstMet(ends) ==
    CHOOSE e \in ends :
        \A f \in ends : e[1] < f[1] \/ (e[1] = f[1] /\ e[2] <= f[2])

LongestOfSize(a, b, alo, ahi, blo, bhi, k) ==
    IF k = 0 THEN <<alo, blo, 0>>
    ELSE FirstMet({<<i - k + 1, j - k + 1, k>> :
                      <<i, j>> \in {e \in (alo..(ahi - 1)) \X (blo..(bhi - 1)) :
                                       j2len(a, b, alo, blo, e[1], e[2]) = k}})

find_longest_match(a, b, alo, ahi, blo, bhi) ==
    LongestOfSize(a, b, alo, ahi, blo, bhi,
                  Largest(RunSizes(a, b, alo, ahi, blo, bhi)))

\* the matching blocks of the window, already in increasing order
RECURSIVE MatchWindow(_, _, _, _, _, _)
MatchWindow(a, b, alo, ahi, blo, bhi) ==
    LET m == find_longest_match(a, b, alo, ahi, blo, bhi)
        i == m[1]
        j == m[2]
        k == m[3]
    IN IF k = 0 THEN <<>>
       ELSE (IF alo < i /\ blo < j
             THEN MatchWindow(a, b, alo, i, blo, j) ELSE <<>>)
            \o <<m>>
            \o (IF i + k < ahi /\ j + k < bhi
                THEN MatchWindow(a, b, i + k, ahi, j + k, bhi) ELSE <<>>)

\* adjacent blocks are merged, empty ones dropped, the sentinel appended
RECURSIVE MergeBlocks(_, _, _)
MergeBlocks(blocks, n, cur) ==
    IF n > Len(blocks)
    THEN IF cur[3] > 0 THEN <<cur>> ELSE <<>>
    ELSE LET nb == blocks[n] IN
         IF cur[1] + cur[3] = nb[1] /\ cur[2] + cur[3] = nb[2]
         THEN MergeBlocks(blocks, n + 1, <<cur[1], cur[2], cur[3] + nb[3]>>)
         ELSE (IF cur[3] > 0 THEN <<cur>> ELSE <<>>)
              \o MergeBlocks(blocks, n + 1, nb)

\* the matcher without its closing (len(a), len(b), 0) block
get_matching_blocks_unterminated(a, b) ==
    MergeBlocks(MatchWindow(a, b, 0, Len(a), 0, Len(b)), 1, <<0, 0, 0>>)

get_matching_blocks(a, b) ==
    MergeBlocks(MatchWindow(a, b, 0, Len(a), 0, Len(b)), 1, <<0, 0, 0>>)
    \o << <<Len(a), Len(b), 0>> >>

Opcode(tag, i1, i2, j1, j2) ==
    [tag |-> tag, i1 |-> i1, i2 |-> i2, j1 |-> j1, j2 |-> j2]

\* get_opcodes reporting a replacement as a deletion and an insertion
RECURSIVE OpcodesFrom_split_replace(_, _, _, _)
OpcodesFrom_split_replace(blocks, n, i, j) ==
    IF n > Len(blocks) THEN <<>>
    ELSE LET ai == blocks[n][1]
             bj == blocks[n][2]
             size == blocks[n][3]
         IN (IF i < ai THEN <<Opcode("delete", i, ai, j, j)>> ELSE <<>>)
            \o (IF j < bj THEN <<Opcode("insert", ai, ai, j, bj)>> ELSE <<>>)
            \o (IF size > 0
                THEN <<Opcode("equal", ai, ai + size, bj, bj + size)>>
                ELSE <<>>)
            \o OpcodesFrom_split_replace(blocks, n + 1, ai + size, bj + size)

RECURSIVE OpcodesFrom(_, _, _, _)
OpcodesFrom(blocks, n, i, j) ==
    IF n > Len(blocks) THEN <<>>
    ELSE LET ai == blocks[n][1]
             bj == blocks[n][2]
             size == blocks[n][3]
             tag == IF i < ai /\ j < bj THEN "replace"
                    ELSE IF i < ai THEN "delete"
                    ELSE IF j < bj THEN "insert"
                    ELSE ""
         IN (IF tag # "" THEN <<Opcode(tag, i, ai, j, bj)>> ELSE <<>>)
            \o (IF size > 0
                THEN <<Opcode("equal", ai, ai + size, bj, bj + size)>>
                ELSE <<>>)
            \o OpcodesFrom(blocks, n + 1, ai + size, bj + size)

get_opcodes(a, b) == OpcodesFrom(get_matching_blocks(a, b), 1, 0, 0)

(***************************************************************************)
(* Text helpers: str(number), f"diff-{n}", html.escape, str.strip,         *)
(* _truncate_text.                                                         *)
(***************************************************************************)
RECURSIVE Decimal(_)
Decimal(n) == IF n < 10 THEN <<48 + n>> ELSE Decimal(n \div 10) \o <<48 + (n % 10)>>

DiffPrefix == <<100, 105, 102, 102, 45>>

DiffId(diff_number) == DiffPrefix \o Decimal(diff_number)

\* html.escape(token): & < > " ' are replaced by their entities
EscapeChar(c) ==
    IF c = 38 THEN <<38, 97, 109, 112, 59>>
    ELSE IF c = 60 THEN <<38, 108, 116, 59>>
    ELSE IF c = 62 THEN <<38, 103, 116, 59>>
    ELSE IF c = 34 THEN <<38, 113, 117, 111, 116, 59>>
    ELSE IF c = 39 THEN <<38, 35, 120, 50, 55, 59>>
    ELSE <<c>>

escape(text) == Join([n \in 1..Len(text) |-> EscapeChar(text[n])])

_escape_tokens(tokens) == Join([n \in 1..Len(tokens) |-> escape(tokens[n])])

RECURSIVE LStrip(_)
LStrip(text) ==
    IF text # <<>> /\ isspace(Head(text)) THEN LStrip(Tail(text)) ELSE text

RECURSIVE RStrip(_)
RStrip(text) ==
    IF text # <<>> /\ isspace(text[Len(text)])
    THEN RStrip(SubSeq(text, 1, Len(text) - 1)) ELSE text

strip(text) == RStrip(LStrip(text))

Ellipsis == 8230

BlockSummaryLimit == 80

SectionTitleLimit == 60

_truncate_text(value, limit) ==
    IF Len(value) <= limit THEN value
    ELSE SubSeq(value, 1, limit - 1) \o <<Ellipsis>>

(***************************************************************************)
(* Optional values (None / a string) and DiffLocation.                     *)
(***************************************************************************)
None == [some |-> FALSE, v |-> <<>>]

Some(v) == [some |-> TRUE, v |-> v]

NoLocation == [is_none |-> TRUE, section_title |-> None, block_summary |-> None]

DiffLocation(section_title, block_summary) ==
    [is_none |-> FALSE, section_title |-> section_title,
     block_summary |-> block_summary]

(***************************************************************************)
(* _find_block_node and _summarize_location.  The ancestors of a text      *)
(* node are its inline wrapper (if any), its block element (if the block   *)
(* has a tag) and the document root.                                       *)
(***************************************************************************)
BlockNames ==
    {"p", "li", "td", "th", "caption", "blockquote",
     "h1", "h2", "h3", "h4", "h5", "h6", "pre", "code", "div"}

heading_tags == {"h1", "h2", "h3", "h4", "h5", "h6"}

\* the index of the block element found, 0 for None
_find_block_node(soup, node) ==
    IF soup[node[1]].tag \in BlockNames THEN node[1] ELSE 0

\* element.get_text(" ", strip=True) of block b: the stripped strings of
\* its text nodes, empty ones left out, joined by one space
RECURSIVE JoinStripped(_, _, _)
JoinStripped(nodes, n, acc) ==
    IF n > Len(nodes) THEN acc
    ELSE LET t == strip(nodes[n].text) IN
         IF t = <<>> THEN JoinStripped(nodes, n + 1, acc)
         ELSE JoinStripped(nodes, n + 1,
                           IF acc = <<>> THEN t ELSE acc \o <<32>> \o t)

BlockNodes(soup, b) ==
    Join([c \in 1..Len(soup[b].children) |-> soup[b].children[c].nodes])

get_text(soup, b) == JoinStripped(BlockNodes(soup, b), 1, <<>>)

\* the first heading of the document before block b instead of the nearest
find_previous_first(soup, b) ==
    LET hits == {h \in 1..(b - 1) : soup[h].tag \in heading_tags}
    IN IF hits = {} THEN 0 ELSE CHOOSE h \in hits : \A g \in hits : h <= g

\* search_anchor.find_previous(heading_tags) from block b: the nearest
\* heading element that starts before it, 0 for None
RECURSIVE find_previous(_, _)
find_previous(soup, b) ==
    IF b <= 1 THEN 0
    ELSE IF soup[b - 1].tag \in heading_tags THEN b - 1
    ELSE find_previous(soup, b - 1)

\* first index n with P(n), 0 when there is none
\* the first lookup with the end of a leaf counted to the leaf
FirstInfo_inclusive(node_infos, index) ==
    LET hits == {n \in 1..Len(node_infos) :
                    node_infos[n].start <= index /\ index <= node_infos[n].end}
    IN IF hits = {} THEN 0 ELSE CHOOSE n \in hits : \A m \in hits : n <= m

FirstInfo(node_infos, index) ==
    LET hits == {n \in 1..Len(node_infos) :
                    node_infos[n].start <= index /\ index < node_infos[n].end}
    IN IF hits = {} THEN 0 ELSE CHOOSE n \in hits : \A m \in hits : n <= m

\* the third lookup over node_infos in place of reversed(node_infos)
LastInfoStartingBy_first(node_infos, index) ==
    LET hits == {n \in 1..Len(node_infos) : node_infos[n].start <= index}
    IN IF hits = {} THEN 0 ELSE CHOOSE n \in hits : \A m \in hits : n <= m

LastInfoStartingBy(node_infos, index) ==
    LET hits == {n \in 1..Len(node_infos) : node_infos[n].start <= index}
    IN IF hits = {} THEN 0 ELSE CHOOSE n \in hits : \A m \in hits : n >= m

\* the three lookups of _summarize_location; 0 when no leaf is resolved
BacktrackInfo(node_infos, start_index, found) ==
    IF found = 0 /\ start_index > 0
    THEN FirstInfo(node_infos, start_index - 1) ELSE found

ReversedInfo(node_infos, start_index, found) ==
    IF found = 0 THEN LastInfoStartingBy(node_infos, start_index) ELSE found

TargetInfo(node_infos, start_index) ==
    ReversedInfo(node_infos, start_index,
        BacktrackInfo(node_infos, start_index,
            FirstInfo(node_infos, start_index)))

\* block_summary of the block found (0: none)
BlockSummary(soup, block, text) ==
    IF block # 0 /\ text # <<>>
    THEN Some(_truncate_text(text, BlockSummaryLimit)) ELSE None

\* the heading element (0: none).  search_anchor is the block, or
\* node.parent when there is no block; node.parent is never None, so
\* soup.find is never used, and nothing precedes the document root
HeadingOf(soup, node, block) ==
    IF block # 0 /\ soup[block].tag \in heading_tags THEN block
    ELSE IF block # 0 THEN find_previous(soup, block)
    ELSE IF soup[node[1]].children[node[2]].wrap # "" \/ soup[node[1]].tag # ""
    THEN find_previous(soup, node[1])
    ELSE 0

SectionTitle(heading, section_text) ==
    IF heading # 0 /\ section_text # <<>>
    THEN Some(_truncate_text(section_text, SectionTitleLimit)) ELSE None

LocationOrNone(section_title, block_summary) ==
    IF ~section_title.some /\ ~block_summary.some THEN NoLocation
    ELSE DiffLocation(section_title, block_summary)

TextOf(soup, element) == IF element # 0 THEN get_text(soup, element) ELSE <<>>

LocationOfHeading(soup, block, heading) ==
    LocationOrNone(SectionTitle(heading, TextOf(soup, heading)),
                   BlockSummary(soup, block, TextOf(soup, block)))

LocationOfNode(soup, node, block) ==
    LocationOfHeading(soup, block, HeadingOf(soup, node, block))

LocationOfTarget(soup, node_infos, target) ==
    IF target = 0 THEN NoLocation
    ELSE LocationOfNode(soup, node_infos[target].node,
                        _find_block_node(soup, node_infos[target].node))

_summarize_location(soup, node_infos, start_index) ==
    IF node_infos = <<>> THEN NoLocation
    ELSE LocationOfTarget(soup, node_infos, TargetInfo(node_infos, start_index))

(***************************************************************************)
(* DiffItem, DiffStats and the highlight entries built by _build_diff.     *)
(* A span entry of the code has no "placeholder" key, which reads as       *)
(* false.                                                                  *)
(***************************************************************************)
DIFF_TYPE_LABELS ==
    [insert |-> <<26032, 22686>>, delete |-> <<21024, 38500>>,
     replace |-> <<20462, 25913>>]

\* a DiffItem with its two texts exchanged
DiffItem_texts_exchanged(id, type, original_text, modified_text, original_location, modified_location) ==
    [id |-> id, type |-> type, original_text |-> modified_text,
     modified_text |-> original_text,
     original_location |-> original_location,
     modified_location |-> modified_location]

DiffItem(id, type, original_text, modified_text, original_location, modified_location) ==
    [id |-> id, type |-> type, original_text |-> original_text,
     modified_text |-> modified_text,
     original_location |-> original_location,
     modified_location |-> modified_location]

DiffStats(inserted, deleted, replaced) ==
    [inserted_tokens |-> inserted, deleted_tokens |-> deleted,
     replaced_tokens |-> replaced]

\* a highlight entry numbered from 0
Entry_numbered_from_zero(id, type, role, start, end, number, placeholder) ==
    [id |-> id, type |-> type, role |-> role, start |-> start, end |-> end,
     label |-> DIFF_TYPE_LABELS[type], number |-> number - 1,
     placeholder |-> placeholder]

Entry(id, type, role, start, end, number, placeholder) ==
    [id |-> id, type |-> type, role |-> role, start |-> start, end |-> end,
     label |-> DIFF_TYPE_LABELS[type], number |-> number,
     placeholder |-> placeholder]

\* the value None of current_entry and of lookup.get(index)
NoEntry ==
    [id |-> <<>>, type |-> "", role |-> "", start |-> 0, end |-> 0,
     label |-> <<>>, number |-> 0, placeholder |-> FALSE]

\* one part of diff_parts: escaped text, inside <ins>/<del> or bare
Part(kind, id, text) == [kind |-> kind, id |-> id, text |-> text]

(***************************************************************************)
(* The body of the opcode loop of _build_diff, one operator per tag.  L    *)
(* holds the loop's locals, C what the loop reads (tokens, trees, leaf     *)
(* spans of both sides).                                                   *)
(***************************************************************************)
\* the equal branch appending the tokens as they are
classify_equal_unescaped(C, L, op) ==
    [L EXCEPT !.diff_parts =
        Append(@, Part("equal", <<>>, Join(Slice(C.original_tokens, op.i1, op.i2))))]

classify_equal(C, L, op) ==
    [L EXCEPT !.diff_parts =
        Append(@, Part("equal", <<>>,
                       _escape_tokens(Slice(C.original_tokens, op.i1, op.i2))))]

classify_insert(C, L, op) ==
    IF op.j1 = op.j2 THEN L
    ELSE LET diff_number == L.diff_index
             diff_id == DiffId(diff_number)
             inserted == Slice(C.modified_tokens, op.j1, op.j2)
             modified_location ==
                 _summarize_location(C.modified_soup, C.modified_node_infos, op.j1)
         IN [diff_index |-> L.diff_index + 1,
             inserted_tokens |-> L.inserted_tokens + (op.j2 - op.j1),
             deleted_tokens |-> L.deleted_tokens,
             replaced_tokens |-> L.replaced_tokens,
             diff_parts |->
                 Append(L.diff_parts, Part("ins", diff_id, _escape_tokens(inserted))),
             diff_items |->
                 Append(L.diff_items,
                        DiffItem(diff_id, "insert", <<>>, Join(inserted),
                                 NoLocation, modified_location)),
             highlight_map |->
                 [original |->
                      Append(L.highlight_map.original,
                             Entry(diff_id, "insert", "original", op.i1, op.i1,
                                   diff_number, TRUE)),
                  modified |->
                      Append(L.highlight_map.modified,
                             Entry(diff_id, "insert", "modified", op.j1, op.j2,
                                   diff_number, FALSE))]]

classify_delete(C, L, op) ==
    IF op.i1 = op.i2 THEN L
    ELSE LET diff_number == L.diff_index
             diff_id == DiffId(diff_number)
             deleted == Slice(C.original_tokens, op.i1, op.i2)
             original_location ==
                 _summarize_location(C.original_soup, C.original_node_infos, op.i1)
             modified_location ==
                 _summarize_location(C.modified_soup, C.modified_node_infos,
                     IF op.j1 < Len(C.modified_tokens) THEN op.j1
                     ELSE Max(0, Len(C.modified_tokens) - 1))
         IN [diff_index |-> L.diff_index + 1,
             inserted_tokens |-> L.inserted_tokens,
             deleted_tokens |-> L.deleted_tokens + (op.i2 - op.i1),
             replaced_tokens |-> L.replaced_tokens,
             diff_parts |->
                 Append(L.diff_parts, Part("del", diff_id, _escape_tokens(deleted))),
             diff_items |->
                 Append(L.diff_items,
                        DiffItem(diff_id, "delete", Join(deleted), <<>>,
                                 original_location, modified_location)),
             highlight_map |->
                 [original |->
                      Append(L.highlight_map.original,
                             Entry(diff_id, "delete", "original", op.i1, op.i2,
                                   diff_number, FALSE)),
                  modified |->
                      Append(L.highlight_map.modified,
                             Entry(diff_id, "delete", "modified", op.j1, op.j1,
                                   diff_number, TRUE))]]

replace_change(C, L, op) ==
         LET diff_number == L.diff_index
             diff_id == DiffId(diff_number)
             removed == Slice(C.original_tokens, op.i1, op.i2)
             added == Slice(C.modified_tokens, op.j1, op.j2)
             original_location ==
                 _summarize_location(C.original_soup, C.original_node_infos, op.i1)
             modified_location ==
                 _summarize_location(C.modified_soup, C.modified_node_infos, op.j1)
             del_part == IF op.i1 # op.i2
                         THEN <<Part("del", diff_id, _escape_tokens(removed))>>
                         ELSE <<>>
             ins_part == IF op.j1 # op.j2
                         THEN <<Part("ins", diff_id, _escape_tokens(added))>>
                         ELSE <<>>
             original_entry ==
                 IF op.i1 # op.i2
                 THEN <<Entry(diff_id, "replace", "original", op.i1, op.i2,
                              diff_number, FALSE)>>
                 ELSE <<>>
             modified_entry ==
                 IF op.j1 # op.j2
                 THEN <<Entry(diff_id, "replace", "modified", op.j1, op.j2,
                              diff_number, FALSE)>>
                 ELSE <<>>
         IN [diff_index |-> L.diff_index + 1,
             inserted_tokens |-> L.inserted_tokens,
             deleted_tokens |-> L.deleted_tokens,
             replaced_tokens |->
                 L.replaced_tokens + Max(op.i2 - op.i1, op.j2 - op.j1),
             diff_parts |-> L.diff_parts \o del_part \o ins_part,
             diff_items |->
                 Append(L.diff_items,
                        DiffItem(diff_id, "replace", Join(removed), Join(added),
                                 original_location, modified_location)),
             highlight_map |->
                 [original |-> L.highlight_map.original \o original_entry,
                  modified |-> L.highlight_map.modified \o modified_entry]]

\* the replace branch without its `continue`
classify_replace_unguarded(C, L, op) == replace_change(C, L, op)

classify_replace(C, L, op) ==
    IF op.i1 = op.i2 /\ op.j1 = op.j2 THEN L
    ELSE replace_change(C, L, op)

\* the loop with equal opcodes taken for changes
classify_equal_as_replace(C, L, op) ==
    IF op.tag \in {"equal", "replace"} THEN classify_replace(C, L, op)
    ELSE IF op.tag = "insert" THEN classify_insert(C, L, op)
    ELSE IF op.tag = "delete" THEN classify_delete(C, L, op)
    ELSE L

\* the loop with an insert branch that forgets inserted_tokens += j2 - j1
classify_insert_uncounted(C, L, op) ==
    IF op.tag = "equal" THEN classify_equal(C, L, op)
    ELSE IF op.tag = "insert"
         THEN [classify_insert(C, L, op) EXCEPT !.inserted_tokens = L.inserted_tokens]
    ELSE IF op.tag = "delete" THEN classify_delete(C, L, op)
    ELSE IF op.tag = "replace" THEN classify_replace(C, L, op)
    ELSE L

\* the loop with a delete branch that forgets diff_index += 1
classify_delete_keeps_index(C, L, op) ==
    IF op.tag = "equal" THEN classify_equal(C, L, op)
    ELSE IF op.tag = "insert" THEN classify_insert(C, L, op)
    ELSE IF op.tag = "delete"
         THEN [classify_delete(C, L, op) EXCEPT !.diff_index = L.diff_index]
    ELSE IF op.tag = "replace" THEN classify_replace(C, L, op)
    ELSE L

\* the loop with an insert branch that forgets diff_index += 1
classify_insert_keeps_index(C, L, op) ==
    IF op.tag = "equal" THEN classify_equal(C, L, op)
    ELSE IF op.tag = "insert"
         THEN [classify_insert(C, L, op) EXCEPT !.diff_index = L.diff_index]
    ELSE IF op.tag = "delete" THEN classify_delete(C, L, op)
    ELSE IF op.tag = "replace" THEN classify_replace(C, L, op)
    ELSE L

\* a tag that is none of the four falls through every elif
\* the loop with an insert branch that counts opcodes, not tokens
classify_insert_counts_one(C, L, op) ==
    IF op.tag = "equal" THEN classify_equal(C, L, op)
    ELSE IF op.tag = "insert"
         THEN [classify_insert(C, L, op) EXCEPT !.inserted_tokens = L.inserted_tokens + 1]
    ELSE IF op.tag = "delete" THEN classify_delete(C, L, op)
    ELSE IF op.tag = "replace" THEN classify_replace(C, L, op)
    ELSE L

\* the loop with an insert branch that anchors the placeholder of the
\* original side at the modified offset j1
classify_insert_anchored_at_j1(C, L, op) ==
    IF op.tag = "equal" THEN classify_equal(C, L, op)
    ELSE IF op.tag = "insert"
         THEN IF op.j1 = op.j2 THEN L
              ELSE [classify_insert(C, L, op) EXCEPT
                       !.highlight_map.original =
                           Append(L.highlight_map.original,
                                  Entry(DiffId(L.diff_index), "insert", "original",
                                        op.j1, op.j1, L.diff_index, TRUE))]
    ELSE IF op.tag = "delete" THEN classify_delete(C, L, op)
    ELSE IF op.tag = "replace" THEN classify_replace(C, L, op)
    ELSE L

\* the loop with a delete branch that anchors the placeholder of the
\* modified side at the original offset i1
classify_delete_anchored_at_i1(C, L, op) ==
    IF op.tag = "equal" THEN classify_equal(C, L, op)
    ELSE IF op.tag = "insert" THEN classify_insert(C, L, op)
    ELSE IF op.tag = "delete"
         THEN IF op.i1 = op.i2 THEN L
              ELSE [classify_delete(C, L, op) EXCEPT
                       !.highlight_map.modified =
                           Append(L.highlight_map.modified,
                                  Entry(DiffId(L.diff_index), "delete", "modified",
                                        op.i1, op.i1, L.diff_index, TRUE))]
    ELSE IF op.tag = "replace" THEN classify_replace(C, L, op)
    ELSE L

\* the loop with a replace branch that counts the original side only
classify_replace_counts_original(C, L, op) ==
    IF op.tag = "equal" THEN classify_equal(C, L, op)
    ELSE IF op.tag = "insert" THEN classify_insert(C, L, op)
    ELSE IF op.tag = "delete" THEN classify_delete(C, L, op)
    ELSE IF op.tag = "replace"
         THEN [classify_replace(C, L, op) EXCEPT
                  !.replaced_tokens = L.replaced_tokens + (op.i2 - op.i1)]
    ELSE L

\* the loop with a delete branch that clamps the anchor of the placeholder
\* as it clamps the offset of the location lookup
classify_delete_anchor_clamped(C, L, op) ==
    IF op.tag = "equal" THEN classify_equal(C, L, op)
    ELSE IF op.tag = "insert" THEN classify_insert(C, L, op)
    ELSE IF op.tag = "delete"
         THEN IF op.i1 = op.i2 \/ op.j1 < Len(C.modified_tokens) THEN classify_delete(C, L, op)
              ELSE [classify_delete(C, L, op) EXCEPT
                       !.highlight_map.modified =
                           Append(L.highlight_map.modified,
                                  Entry(DiffId(L.diff_index), "delete", "modified",
                                        Max(0, Len(C.modified_tokens) - 1),
                                        Max(0, Len(C.modified_tokens) - 1),
                                        L.diff_index, TRUE))]
    ELSE IF op.tag = "replace" THEN classify_replace(C, L, op)
    ELSE L

classify(C, L, op) ==
    IF op.tag = "equal" THEN classify_equal(C, L, op)
    ELSE IF op.tag = "insert" THEN classify_insert(C, L, op)
    ELSE IF op.tag = "delete" THEN classify_delete(C, L, op)
    ELSE IF op.tag = "replace" THEN classify_replace(C, L, op)
    ELSE L

(***************************************************************************)
(* The tree being mutated (the soup).  Every text node of the parsed       *)
(* document is a slot [wrap, nodes]: nodes starts as the one text node     *)
(* and becomes the fragment list the injector puts in its place.           *)
(***************************************************************************)
NoAttrs ==
    [class |-> <<>>, data_diff_id |-> <<>>, data_diff_type |-> "",
     data_diff_role |-> "", data_diff_type_label |-> None,
     data_diff_number |-> None, title |-> None, data_diff_placeholder |-> None]

TextNode(text) == [kind |-> "text", text |-> text]

BeautifulSoup(html) ==
    [b \in 1..Len(html) |->
        [tag |-> html[b].tag,
         children |->
            [c \in 1..Len(html[b].children) |->
                [wrap |-> html[b].children[c].wrap,
                 nodes |-> <<TextNode(html[b].children[c].text)>>]]]]

_create_marker_tag(entry, text) ==
    [kind |-> "marker",
     attrs |->
        [class |->
            <<"diff-marker", "diff-marker--" \o entry.type,
              "diff-marker--" \o entry.role,
              IF entry.placeholder THEN "diff-marker--placeholder"
              ELSE "diff-marker--with-pill">>,
         data_diff_id |-> entry.id,
         data_diff_type |-> entry.type,
         data_diff_role |-> entry.role,
         data_diff_type_label |->
            IF entry.label # <<>> THEN Some(entry.label) ELSE None,
         data_diff_number |-> Some(Decimal(entry.number)),
         title |->
            IF entry.label # <<>>
            THEN Some(entry.label \o <<32, 35>> \o Decimal(entry.number))
            ELSE None,
         data_diff_placeholder |->
            IF entry.placeholder THEN Some(<<116, 114, 117, 101>>) ELSE None],
     text |-> text]

Nbsp == 160

(***************************************************************************)
(* str(soup): the serialised tree, a sequence of tag and character items.  *)
(* Text is written with & < > replaced by entities.                        *)
(***************************************************************************)
OpenTag(tag, attrs) == [k |-> "open", tag |-> tag, attrs |-> attrs]

CloseTag(tag) == [k |-> "close", tag |-> tag]

Chr(c) == [k |-> "chr", c |-> c]

substitute_xml(c) ==
    IF c = 38 THEN <<38, 97, 109, 112, 59>>
    ELSE IF c = 60 THEN <<38, 108, 116, 59>>
    ELSE IF c = 62 THEN <<38, 103, 116, 59>>
    ELSE <<c>>

OutText(text) ==
    LET t == Join([n \in 1..Len(text) |-> substitute_xml(text[n])])
    IN [n \in 1..Len(t) |-> Chr(t[n])]

OutNode(node) ==
    IF node.kind = "text" THEN OutText(node.text)
    ELSE <<OpenTag("span", node.attrs)>> \o OutText(node.text)
         \o <<CloseTag("span")>>

Wrapped(tag, items) ==
    IF tag = "" THEN items
    ELSE <<OpenTag(tag, NoAttrs)>> \o items \o <<CloseTag(tag)>>

OutChild(child) ==
    Wrapped(child.wrap, Join([n \in 1..Len(child.nodes) |-> OutNode(child.nodes[n])]))

OutBlock(block) ==
    Wrapped(block.tag,
            Join([c \in 1..Len(block.children) |-> OutChild(block.children[c])]))

str(soup) == Join([b \in 1..Len(soup) |-> OutBlock(soup[b])])

(***************************************************************************)
(* _build_highlight_lookup and _apply_highlights.                          *)
(***************************************************************************)
IsSpanEntry(entry) == entry.end > entry.start

\* lookup.get(index): a later span entry overwrites an earlier one
_build_highlight_lookup(span_highlights, index) ==
    LET hits == {n \in 1..Len(span_highlights) :
                    span_highlights[n].start <= index
                    /\ index < span_highlights[n].end}
    IN IF hits = {} THEN NoEntry
       ELSE span_highlights[CHOOSE n \in hits : \A m \in hits : n >= m]

\* flush() without buffer.clear()
flush_keeps_buffer(S) ==
    IF S.buffer = <<>> THEN S
    ELSE LET text == Join(S.buffer) IN
         [S EXCEPT
            !.fragments =
                Append(@, IF S.current_entry # NoEntry
                          THEN _create_marker_tag(S.current_entry, text)
                          ELSE TextNode(text))]

\* S is the state of one leaf's pass: current_entry, buffer, fragments, and
\* boundary, the entries still in boundary_highlights in insertion order
flush(S) ==
    IF S.buffer = <<>> THEN S
    ELSE LET text == Join(S.buffer) IN
         [S EXCEPT
            !.fragments =
                Append(@, IF S.current_entry # NoEntry
                          THEN _create_marker_tag(S.current_entry, text)
                          ELSE TextNode(text)),
            !.buffer = <<>>]

\* emit_boundary() reading boundary_highlights without pop()
emit_boundary_unpopped(S, boundary_index) ==
    LET entries == SelectSeq(S.boundary, LAMBDA e : e.start = boundary_index)
        flushed == flush(S)
    IN IF entries = <<>> THEN S
       ELSE [flushed EXCEPT
                !.fragments =
                    @ \o [n \in 1..Len(entries) |->
                            _create_marker_tag(entries[n], <<Nbsp>>)]]

\* emit_boundary() without its flush() before the markers
emit_boundary_unflushed(S, boundary_index) ==
    LET entries == SelectSeq(S.boundary, LAMBDA e : e.start = boundary_index)
    IN IF entries = <<>> THEN S
       ELSE [S EXCEPT
                !.boundary = SelectSeq(@, LAMBDA e : e.start # boundary_index),
                !.fragments =
                    @ \o [n \in 1..Len(entries) |->
                            _create_marker_tag(entries[n], <<Nbsp>>)]]

emit_boundary(S, boundary_index) ==
    LET entries == SelectSeq(S.boundary, LAMBDA e : e.start = boundary_index)
        flushed == flush(S)
    IN IF entries = <<>> THEN S
       ELSE [flushed EXCEPT
                !.boundary = SelectSeq(@, LAMBDA e : e.start # boundary_index),
                !.fragments =
                    @ \o [n \in 1..Len(entries) |->
                            _create_marker_tag(entries[n], <<Nbsp>>)]]

\* the loop over a leaf's tokens without the flush() at a change of entry
RECURSIVE LeafTokens_unswitched(_, _, _, _)
LeafTokens_unswitched(S, span_highlights, info, offset) ==
    IF offset >= Len(info.tokens) THEN S
    ELSE LET absolute_index == info.start + offset
             entry == _build_highlight_lookup(span_highlights, absolute_index)
             buffered == [S EXCEPT
                            !.current_entry = entry,
                            !.buffer = Append(@, info.tokens[offset + 1])]
         IN LeafTokens_unswitched(emit_boundary(buffered, absolute_index + 1),
                                  span_highlights, info, offset + 1)

RECURSIVE LeafTokens(_, _, _, _)
LeafTokens(S, span_highlights, info, offset) ==
    IF offset >= Len(info.tokens) THEN S
    ELSE LET absolute_index == info.start + offset
             entry == _build_highlight_lookup(span_highlights, absolute_index)
             switched == IF entry # S.current_entry
                         THEN [flush(S) EXCEPT !.current_entry = entry]
                         ELSE S
             buffered == [switched EXCEPT
                            !.buffer = Append(@, info.tokens[offset + 1])]
         IN LeafTokens(emit_boundary(buffered, absolute_index + 1),
                       span_highlights, info, offset + 1)

\* the pass over one leaf: the fragments replacing its node, and what is
\* left of boundary_highlights
ApplyLeaf(span_highlights, boundary, info) ==
    LET S0 == [current_entry |-> NoEntry, buffer |-> <<>>, fragments |-> <<>>,
               boundary |-> boundary]
        S1 == emit_boundary(S0, info.start)
        S2 == LeafTokens(S1, span_highlights, info, 0)
        S3 == flush(S2)
    IN emit_boundary(S3, info.end)

ReplaceNode(soup, node, fragments) ==
    [soup EXCEPT ![node[1]].children[node[2]].nodes = fragments]

RECURSIVE ApplyLeaves(_, _, _, _, _)

ApplyNext(soup, node_infos, n, span_highlights, S) ==
    ApplyLeaves(ReplaceNode(soup, node_infos[n].node, S.fragments),
                node_infos, n + 1, span_highlights, S.boundary)

ApplyLeaves(soup, node_infos, n, span_highlights, boundary) ==
    IF n > Len(node_infos) THEN [soup |-> soup, boundary |-> boundary]
    ELSE ApplyNext(soup, node_infos, n, span_highlights,
                   ApplyLeaf(span_highlights, boundary, node_infos[n]))

\* sorted(boundary_highlights.keys()), each key's entries in insertion order
RECURSIVE SortedByStart(_)
SortedByStart(entries) ==
    IF entries = <<>> THEN <<>>
    ELSE LET lo == CHOOSE x \in {entries[n].start : n \in 1..Len(entries)} :
                       \A n \in 1..Len(entries) : x <= entries[n].start
         IN SelectSeq(entries, LAMBDA e : e.start = lo)
            \o SortedByStart(SelectSeq(entries, LAMBDA e : e.start # lo))

\* the leftover boundary markers.  Every leaf node has been extracted by
\* now, so node_infos[-1]["node"].parent is None and the markers go to
\* soup.body or soup: the end of the document root (the parsed fragments
\* have no body element)
AppendFallback(soup, boundary) ==
    LET entries == SortedByStart(boundary) IN
    soup \o [n \in 1..Len(entries) |->
                [tag |-> "",
                 children |->
                    <<[wrap |-> "",
                       nodes |-> <<_create_marker_tag(entries[n], <<Nbsp>>)>>]>>]]

\* the tree after the call and the string returned
Returned(soup) == [soup |-> soup, html |-> str(soup)]

\* the injector without the markers appended for the entries left over
WithFallback_dropped(done) == done.soup

WithFallback(done) ==
    IF done.boundary # <<>> THEN AppendFallback(done.soup, done.boundary)
    ELSE done.soup

_apply_highlights(soup, node_infos, highlights) ==
    IF highlights = <<>> THEN Returned(soup)
    ELSE Returned(WithFallback(
            ApplyLeaves(soup, node_infos, 1,
                        SelectSeq(highlights, IsSpanEntry),
                        SelectSeq(highlights, LAMBDA e : ~IsSpanEntry(e)))))

(***************************************************************************)
(* Input documents.                                                        *)
(***************************************************************************)
DocChars == {65, 32}

Leaf(wrap, text) == [wrap |-> wrap, text |-> text]

Block(tag, children) == [tag |-> tag, children |-> children]

\* <p>text</p>
Paragraph(text) == <<Block("p", <<Leaf("", text)>>)>>

NonEmptyTexts == UNION {[1..n -> DocChars] : n \in 1..MaxChars}

RECURSIVE TotalLen(_)
TotalLen(texts) == IF texts = <<>> THEN 0 ELSE Len(Head(texts)) + TotalLen(Tail(texts))

\* the texts of a document of one or two text nodes
LeafTexts ==
    {texts \in {<<t>> : t \in NonEmptyTexts}
               \cup {<<t, u>> : t \in NonEmptyTexts, u \in NonEmptyTexts} :
        TotalLen(texts) <= MaxChars}

\* one paragraph per text: <p>t1</p><p>t2</p>
AsBlocks(texts) == [n \in 1..Len(texts) |-> Block("p", <<Leaf("", texts[n])>>)]

\* one paragraph, every second text inside an inline element: <p>t1<b>t2</b></p>
AsInline(texts) ==
    <<Block("p", [n \in 1..Len(texts) |->
                    Leaf(IF n % 2 = 0 THEN "b" ELSE "", texts[n])])>>

Docs ==
    {<<>>, <<Block("p", <<>>)>>}
    \cup {AsBlocks(texts) : texts \in LeafTexts}
    \cup {AsInline(texts) : texts \in LeafTexts}

\* the scenarios of the specification's testable properties
HelloWorld == <<72, 101, 108, 108, 111, 32, 119, 111, 114, 108, 100>>

HelloBraveWorld ==
    <<72, 101, 108, 108, 111, 32, 98, 114, 97, 118, 101, 32,
      119, 111, 114, 108, 100>>

Clause3 == <<67, 108, 97, 117, 115, 101, 32, 51>>

FixedText == <<70, 105, 120, 101, 100, 32, 116, 101, 120, 116>>

NewSentence == <<46, 32, 78, 101, 119, 32, 115, 101, 110, 116, 101, 110, 99, 101, 46>>

ScenarioReplace == <<Paragraph(<<65, 32, 66, 32, 67>>), Paragraph(<<65, 32, 88, 32, 67>>)>>

ScenarioInsert == <<Paragraph(HelloWorld), Paragraph(HelloBraveWorld)>>

ScenarioHeading ==
    <<(<<Block("h2", <<Leaf("", Clause3)>>)>> \o Paragraph(FixedText)),
      (<<Block("h2", <<Leaf("", Clause3)>>)>>
       \o Paragraph(FixedText \o NewSentence))>>

ScenarioPairs == {ScenarioReplace, ScenarioInsert, ScenarioHeading}

InputPairs == (Docs \X Docs) \cup ScenarioPairs

(***************************************************************************)
(* The state: the locals of every running call of _build_diff.             *)
(***************************************************************************)
Requests == {1, 2}

VARIABLES
    pc,                   \* where each call stands
    original_html, modified_html,
    original_soup, original_tokens, original_node_infos,
    modified_soup, modified_tokens, modified_node_infos,
    opcodes,              \* matcher.get_opcodes()
    op_pos,               \* opcodes consumed by the loop
    diff_parts, inserted_tokens, deleted_tokens, replaced_tokens,
    diff_items, highlight_map, diff_index,
    diff_html, stats, highlighted_original, highlighted_modified,
    response,             \* what the endpoint returns for the call
    resolved              \* a call of _summarize_location made on its own

inputs == <<original_html, modified_html>>

original_side == <<original_soup, original_tokens, original_node_infos>>

modified_side == <<modified_soup, modified_tokens, modified_node_infos>>

loop_locals ==
    <<diff_parts, inserted_tokens, deleted_tokens, replaced_tokens,
      diff_items, highlight_map, diff_index>>

outputs == <<diff_html, stats, highlighted_original, highlighted_modified>>

\* the state around _build_diff
callers == <<response, resolved>>

vars ==
    <<pc, inputs, original_side, modified_side, opcodes, op_pos, loop_locals,
      outputs, callers>>

Ctx(r) ==
    [original_tokens |-> original_tokens[r],
     modified_tokens |-> modified_tokens[r],
     original_soup |-> original_soup[r],
     modified_soup |-> modified_soup[r],
     original_node_infos |-> original_node_infos[r],
     modified_node_infos |-> modified_node_infos[r]]

Locals(r) ==
    [diff_parts |-> diff_parts[r],
     inserted_tokens |-> inserted_tokens[r],
     deleted_tokens |-> deleted_tokens[r],
     replaced_tokens |-> replaced_tokens[r],
     diff_items |-> diff_items[r],
     highlight_map |-> highlight_map[r],
     diff_index |-> diff_index[r]]

EmptyMap == [original |-> <<>>, modified |-> <<>>]

\* no response yet, and no call of _summarize_location on its own
NoResponse == [returned |-> FALSE]

NotResolved == [called |-> FALSE]

\* the calls in `running` start on the pairs of `pairs`; the others never run
InitWith(running, pairs) ==
    /\ pc = [r \in Requests |-> IF r \in running THEN "prepare_original" ELSE "idle"]
    /\ \E f \in [running -> pairs] :
          /\ original_html = [r \in Requests |-> IF r \in running THEN f[r][1] ELSE <<>>]
          /\ modified_html = [r \in Requests |-> IF r \in running THEN f[r][2] ELSE <<>>]
    /\ original_soup = [r \in Requests |-> <<>>]
    /\ original_tokens = [r \in Requests |-> <<>>]
    /\ original_node_infos = [r \in Requests |-> <<>>]
    /\ modified_soup = [r \in Requests |-> <<>>]
    /\ modified_tokens = [r \in Requests |-> <<>>]
    /\ modified_node_infos = [r \in Requests |-> <<>>]
    /\ opcodes = [r \in Requests |-> <<>>]
    /\ op_pos = [r \in Requests |-> 0]
    /\ diff_parts = [r \in Requests |-> <<>>]
    /\ inserted_tokens = [r \in Requests |-> 0]
    /\ deleted_tokens = [r \in Requests |-> 0]
    /\ replaced_tokens = [r \in Requests |-> 0]
    /\ diff_items = [r \in Requests |-> <<>>]
    /\ highlight_map = [r \in Requests |-> EmptyMap]
    /\ diff_index = [r \in Requests |-> 0]
    /\ diff_html = [r \in Requests |-> <<>>]
    /\ stats = [r \in Requests |-> DiffStats(0, 0, 0)]
    /\ highlighted_original = [r \in Requests |-> <<>>]
    /\ highlighted_modified = [r \in Requests |-> <<>>]
    /\ response = [r \in Requests |-> NoResponse]
    /\ resolved = [r \in Requests |-> NotResolved]

Init == InitWith({1}, InputPairs)

(***************************************************************************)
(* The steps of _build_diff.                                               *)
(***************************************************************************)
StoreOriginalTokens(r, prepared) ==
    /\ original_tokens' = [original_tokens EXCEPT ![r] = prepared.tokens]
    /\ original_node_infos' = [original_node_infos EXCEPT ![r] = prepared.node_infos]

StoreModifiedTokens(r, prepared) ==
    /\ modified_tokens' = [modified_tokens EXCEPT ![r] = prepared.tokens]
    /\ modified_node_infos' = [modified_node_infos EXCEPT ![r] = prepared.node_infos]

PrepareOriginal(r) ==
    /\ pc[r] = "prepare_original"
    /\ original_soup' = [original_soup EXCEPT ![r] = BeautifulSoup(original_html[r])]
    /\ StoreOriginalTokens(r, _prepare_html_tokens(original_html[r]))
    /\ pc' = [pc EXCEPT ![r] = "prepare_modified"]
    /\ UNCHANGED <<callers, inputs, modified_side, opcodes, op_pos, loop_locals, outputs>>

PrepareModified(r) ==
    /\ pc[r] = "prepare_modified"
    /\ modified_soup' = [modified_soup EXCEPT ![r] = BeautifulSoup(modified_html[r])]
    /\ StoreModifiedTokens(r, _prepare_html_tokens(modified_html[r]))
    /\ pc' = [pc EXCEPT ![r] = "align"]
    /\ UNCHANGED <<callers, inputs, original_side, opcodes, op_pos, loop_locals, outputs>>

\* the loop started on a counter that the calls share: it goes on from the
\* highest number any call has reached
StartLoop_shared_counter(r, ops) ==
    /\ pc[r] = "align"
    /\ opcodes' = [opcodes EXCEPT ![r] = ops]
    /\ op_pos' = [op_pos EXCEPT ![r] = 0]
    /\ diff_parts' = [diff_parts EXCEPT ![r] = <<>>]
    /\ inserted_tokens' = [inserted_tokens EXCEPT ![r] = 0]
    /\ deleted_tokens' = [deleted_tokens EXCEPT ![r] = 0]
    /\ replaced_tokens' = [replaced_tokens EXCEPT ![r] = 0]
    /\ diff_items' = [diff_items EXCEPT ![r] = <<>>]
    /\ highlight_map' = [highlight_map EXCEPT ![r] = EmptyMap]
    /\ diff_index' =
          [diff_index EXCEPT ![r] =
              CHOOSE n \in {Max(1, diff_index[q]) : q \in Requests} :
                  \A q \in Requests : n >= diff_index[q]]
    /\ pc' = [pc EXCEPT ![r] = "classify"]
    /\ UNCHANGED <<callers, inputs, original_side, modified_side, outputs>>

\* the locals set before the loop, with the opcode list the matcher returns
StartLoop(r, ops) ==
    /\ pc[r] = "align"
    /\ opcodes' = [opcodes EXCEPT ![r] = ops]
    /\ op_pos' = [op_pos EXCEPT ![r] = 0]
    /\ diff_parts' = [diff_parts EXCEPT ![r] = <<>>]
    /\ inserted_tokens' = [inserted_tokens EXCEPT ![r] = 0]
    /\ deleted_tokens' = [deleted_tokens EXCEPT ![r] = 0]
    /\ replaced_tokens' = [replaced_tokens EXCEPT ![r] = 0]
    /\ diff_items' = [diff_items EXCEPT ![r] = <<>>]
    /\ highlight_map' = [highlight_map EXCEPT ![r] = EmptyMap]
    /\ diff_index' = [diff_index EXCEPT ![r] = 1]
    /\ pc' = [pc EXCEPT ![r] = "classify"]
    /\ UNCHANGED <<callers, inputs, original_side, modified_side, outputs>>

Align(r) == StartLoop(r, get_opcodes(original_tokens[r], modified_tokens[r]))

\* the loop's locals of call r become L
StoreLocals(r, L) ==
    /\ diff_parts' = [diff_parts EXCEPT ![r] = L.diff_parts]
    /\ inserted_tokens' = [inserted_tokens EXCEPT ![r] = L.inserted_tokens]
    /\ deleted_tokens' = [deleted_tokens EXCEPT ![r] = L.deleted_tokens]
    /\ replaced_tokens' = [replaced_tokens EXCEPT ![r] = L.replaced_tokens]
    /\ diff_items' = [diff_items EXCEPT ![r] = L.diff_items]
    /\ highlight_map' = [highlight_map EXCEPT ![r] = L.highlight_map]
    /\ diff_index' = [diff_index EXCEPT ![r] = L.diff_index]

\* one iteration of the opcode loop
ClassifyStep(r) ==
    /\ pc[r] = "classify"
    /\ op_pos[r] < Len(opcodes[r])
    /\ StoreLocals(r, classify(Ctx(r), Locals(r), opcodes[r][op_pos[r] + 1]))
    /\ op_pos' = [op_pos EXCEPT ![r] = @ + 1]
    /\ UNCHANGED <<callers, pc, inputs, original_side, modified_side, opcodes, outputs>>

\* "".join(diff_parts)
PartAttrs(part) ==
    [NoAttrs EXCEPT
        !.class = <<IF part.kind = "ins" THEN "diff-insert" ELSE "diff-delete">>,
        !.data_diff_id = part.id]

OutPart(part) ==
    LET chars == [n \in 1..Len(part.text) |-> Chr(part.text[n])] IN
    IF part.kind = "equal" THEN chars
    ELSE <<OpenTag(part.kind, PartAttrs(part))>> \o chars \o <<CloseTag(part.kind)>>

JoinParts(parts) == Join([n \in 1..Len(parts) |-> OutPart(parts[n])])

\* diff_html, stats and the injection started while the loop still runs
BuildStats_early(r) ==
    /\ pc[r] = "classify"
    /\ diff_html' = [diff_html EXCEPT ![r] = JoinParts(diff_parts[r])]
    /\ stats' = [stats EXCEPT ![r] =
                    DiffStats(inserted_tokens[r], deleted_tokens[r], replaced_tokens[r])]
    /\ pc' = [pc EXCEPT ![r] = "highlight_original"]
    /\ UNCHANGED <<callers, inputs, original_side, modified_side, opcodes, op_pos,
                   loop_locals, highlighted_original, highlighted_modified>>

\* the loop is exhausted: diff_html and stats
BuildStats(r) ==
    /\ pc[r] = "classify"
    /\ op_pos[r] = Len(opcodes[r])
    /\ diff_html' = [diff_html EXCEPT ![r] = JoinParts(diff_parts[r])]
    /\ stats' = [stats EXCEPT ![r] =
                    DiffStats(inserted_tokens[r], deleted_tokens[r], replaced_tokens[r])]
    /\ pc' = [pc EXCEPT ![r] = "highlight_original"]
    /\ UNCHANGED <<callers, inputs, original_side, modified_side, opcodes, op_pos,
                   loop_locals, highlighted_original, highlighted_modified>>

StoreOriginal(r, applied) ==
    /\ original_soup' = [original_soup EXCEPT ![r] = applied.soup]
    /\ highlighted_original' = [highlighted_original EXCEPT ![r] = applied.html]

StoreModified(r, applied) ==
    /\ modified_soup' = [modified_soup EXCEPT ![r] = applied.soup]
    /\ highlighted_modified' = [highlighted_modified EXCEPT ![r] = applied.html]

HighlightOriginal(r) ==
    /\ pc[r] = "highlight_original"
    /\ StoreOriginal(r, _apply_highlights(original_soup[r], original_node_infos[r],
                                          highlight_map[r].original))
    /\ pc' = [pc EXCEPT ![r] = "highlight_modified"]
    /\ UNCHANGED <<callers, inputs, original_tokens, original_node_infos, modified_side,
                   opcodes, op_pos, loop_locals, diff_html, stats,
                   highlighted_modified>>

HighlightModified(r) ==
    /\ pc[r] = "highlight_modified"
    /\ StoreModified(r, _apply_highlights(modified_soup[r], modified_node_infos[r],
                                          highlight_map[r].modified))
    /\ pc' = [pc EXCEPT ![r] = "done"]
    /\ UNCHANGED <<callers, inputs, modified_tokens, modified_node_infos, original_side,
                   opcodes, op_pos, loop_locals, diff_html, stats,
                   highlighted_original>>

Next ==
    \E r \in Requests :
        \/ PrepareOriginal(r)
        \/ PrepareModified(r)
        \/ Align(r)
        \/ ClassifyStep(r)
        \/ BuildStats(r)
        \/ HighlightOriginal(r)
        \/ HighlightModified(r)

Spec == Init /\ [][Next]_vars

(***************************************************************************)
(* Two calls of _build_diff in one process, their steps interleaved in     *)
(* any order.                                                              *)
(***************************************************************************)
ConcDocs ==
    {<<>>, Paragraph(<<65>>), Paragraph(<<65, 32>>), Paragraph(<<32, 65>>),
     AsBlocks(<< <<32, 65>>, <<32>> >>)}

ConcPairs == ConcDocs \X ConcDocs

InitConc == InitWith(Requests, ConcPairs)

SpecConc == InitConc /\ [][Next]_vars

(***************************************************************************)
(* The classifier behind an aligner taken as a black box: the opcode list  *)
(* is any list of at most MaxOps opcodes over the two token sequences,     *)
(* degenerate and overlapping ones included.                               *)
(***************************************************************************)
MaxOps == 2

Tags == {"equal", "insert", "delete", "replace"}

AnyOpcode(la, lb) ==
    {Opcode(tag, i1, i2, j1, j2) :
        tag \in Tags,
        <<i1, i2>> \in {p \in (0..la) \X (0..la) : p[1] <= p[2]},
        <<j1, j2>> \in {p \in (0..lb) \X (0..lb) : p[1] <= p[2]}}

AnyOpcodes(la, lb) == UNION {[1..n -> AnyOpcode(la, lb)] : n \in 0..MaxOps}

\* the documents on which every opcode list is tried
AnyAlignerPairs ==
    {<<Paragraph(<<65>>), Paragraph(<<65, 65>>)>>,
     <<Paragraph(<<65>>), <<>> >>,
     << <<>>, Paragraph(<<65>>)>>}

AlignAny(r) ==
    /\ pc[r] = "align"
    /\ <<original_html[r], modified_html[r]>> \in AnyAlignerPairs
    /\ \E ops \in AnyOpcodes(Len(original_tokens[r]), Len(modified_tokens[r])) :
          StartLoop(r, ops)

\* the other documents go through the matcher
InitAnyAligner == InitWith({1}, AnyAlignerPairs \cup {ScenarioReplace})

NextAnyAligner ==
    \E r \in Requests :
        \/ PrepareOriginal(r)
        \/ PrepareModified(r)
        \/ Align(r)
        \/ AlignAny(r)
        \/ ClassifyStep(r)
        \/ BuildStats(r)
        \/ HighlightOriginal(r)
        \/ HighlightModified(r)

SpecAnyAligner == InitAnyAligner /\ [][NextAnyAligner]_vars

(***************************************************************************)
(* The tokenizer on its own: a call whose original document is one         *)
(* paragraph holding any text of at most MaxText characters that are       *)
(* letters, a space, an ideograph or a full stop, or one of the two        *)
(* mixed-script examples; the modified document is empty.                  *)
(***************************************************************************)
MaxText == 3

TokChars == {65, 66, 32, 21512, 46}

Texts == UNION {[1..n -> TokChars] : n \in 0..MaxText}

\* "合同A条款" and "ABC测试"
ContractAClause == <<21512, 21516, 65, 26465, 27454>>

ABCTest == <<65, 66, 67, 27979, 35797>>

TokenizerPairs ==
    {<<Paragraph(text), <<>> >> : text \in Texts \cup {ContractAClause, ABCTest}}

InitTokenizer == InitWith({1}, TokenizerPairs)

SpecTokenizer == InitTokenizer /\ [][Next]_vars

(***************************************************************************)
(* Documents with headings: up to MaxBlocks blocks, each a heading (short, *)
(* blank or longer than the section title limit) or a paragraph, diffed    *)
(* in both directions against the document without one of its blocks; and  *)
(* the heading scenario.                                                   *)
(***************************************************************************)
MaxBlocks == 3

LongTitle == [n \in 1..(SectionTitleLimit + 1) |-> 65]

SectionBlocks ==
    {Block("h1", <<Leaf("", <<65>>)>>), Block("h3", <<Leaf("", <<66>>)>>),
     Block("h2", <<Leaf("", <<32>>)>>), Block("h2", <<Leaf("", LongTitle)>>),
     Block("p", <<Leaf("", <<65>>)>>), Block("p", <<Leaf("", <<66>>)>>)}

SectionDocs == UNION {[1..n -> SectionBlocks] : n \in 0..MaxBlocks}

\* the document without its block k
WithoutBlock(html, k) == SubSeq(html, 1, k - 1) \o SubSeq(html, k + 1, Len(html))

\* a document and the same document with one block removed
BlockRemoved ==
    UNION {{<<html, WithoutBlock(html, k)>> : k \in 1..Len(html)} : html \in SectionDocs}

SectionPairs ==
    BlockRemoved \cup {<<p[2], p[1]>> : p \in BlockRemoved} \cup {ScenarioHeading}

InitSections == InitWith({1}, SectionPairs)

SpecSections == InitSections /\ [][Next]_vars

(***************************************************************************)
(* The flattener on its own: a document of at most MaxLeaves text nodes,   *)
(* one per paragraph or all in one paragraph, each of them empty (the      *)
(* string of an empty comment), a word, a word and a space or an           *)
(* ideograph and a letter, against the empty document, on either side.     *)
(***************************************************************************)
MaxLeaves == 3

FlatTexts == {<<>>, <<65>>, <<65, 32>>, <<21512, 65>>}

FlatDocs ==
    UNION {{AsBlocks(texts), AsInline(texts)} :
              texts \in UNION {[1..n -> FlatTexts] : n \in 1..MaxLeaves}}

FlattenerPairs ==
    {<<html, <<>> >> : html \in FlatDocs} \cup {<< <<>>, html>> : html \in FlatDocs}

InitFlattener == InitWith({1}, FlattenerPairs)

SpecFlattener == InitFlattener /\ [][Next]_vars

(***************************************************************************)
(* The injector behind an aligner taken as a black box that reports        *)
(* insertions and deletions only: any list of at most MaxOps such opcodes  *)
(* over a document of two text nodes and a document of one, so that        *)
(* placeholders meet at one offset, at the seam of two leaves and inside   *)
(* spans.                                                                  *)
(***************************************************************************)
PlaceholderOpcode(la, lb) ==
    {Opcode("insert", i1, i1, j1, j2) :
        i1 \in 0..la, <<j1, j2>> \in {p \in (0..lb) \X (0..lb) : p[1] < p[2]}}
    \cup {Opcode("delete", i1, i2, j1, j1) :
            <<i1, i2>> \in {p \in (0..la) \X (0..la) : p[1] < p[2]}, j1 \in 0..lb}

PlaceholderOpcodes(la, lb) ==
    UNION {[1..n -> PlaceholderOpcode(la, lb)] : n \in 0..MaxOps}

PlaceholderPairs ==
    {<<AsBlocks(<<(<<65>>), (<<66>>)>>), Paragraph(<<65>>)>>,
     <<AsInline(<<(<<65>>), (<<66>>)>>), Paragraph(<<65>>)>>,
     <<Paragraph(<<65>>), AsBlocks(<<(<<65>>), (<<66>>)>>)>>}

AlignPlaceholders(r) ==
    /\ pc[r] = "align"
    /\ <<original_html[r], modified_html[r]>> \in PlaceholderPairs
    /\ \E ops \in PlaceholderOpcodes(Len(original_tokens[r]), Len(modified_tokens[r])) :
          StartLoop(r, ops)

\* the inserted-word scenario goes through the matcher
InitAnyPlaceholders == InitWith({1}, PlaceholderPairs \cup {ScenarioInsert})

NextAnyPlaceholders ==
    \E r \in Requests :
        \/ PrepareOriginal(r)
        \/ PrepareModified(r)
        \/ Align(r)
        \/ AlignPlaceholders(r)
        \/ ClassifyStep(r)
        \/ BuildStats(r)
        \/ HighlightOriginal(r)
        \/ HighlightModified(r)

SpecAnyPlaceholders == InitAnyPlaceholders /\ [][NextAnyPlaceholders]_vars

(***************************************************************************)
(* _apply_highlights as a function of its highlights argument: the         *)
(* original tree of a document is injected with any list of at most        *)
(* MaxEntries entries, spans inside the flat sequence and boundaries       *)
(* anchored from 0 to one past its end.                                    *)
(***************************************************************************)
MaxEntries == 2

InjectorDocs ==
    {<<>>, <<Block("p", <<>>)>>, Paragraph(<<65>>),
     AsBlocks(<<(<<65>>), (<<66>>)>>), AsInline(<<(<<65>>), (<<66>>)>>)}

InjectorPairs == {<<html, <<>> >> : html \in InjectorDocs}

\* the [start, end) of an entry over a flat sequence of n tokens
EntryRanges(n) == {p \in (0..(n + 1)) \X (0..(n + 1)) : p[1] = p[2] \/ (p[1] < p[2] /\ p[2] <= n)}

AnyHighlights(n) ==
    UNION {{[k \in 1..m |->
                Entry(DiffId(k), IF f[k][1] = f[k][2] THEN "insert" ELSE "delete",
                      "original", f[k][1], f[k][2], k, f[k][1] = f[k][2])] :
              f \in [1..m -> EntryRanges(n)]} : m \in 0..MaxEntries}

\* the call _apply_highlights(original_soup, original_node_infos, highlights)
\* is about to be made with any highlights
TakeHighlights(r) ==
    /\ pc[r] = "align"
    /\ \E highlights \in AnyHighlights(Len(original_tokens[r])) :
          highlight_map' = [highlight_map EXCEPT ![r].original = highlights]
    /\ pc' = [pc EXCEPT ![r] = "highlight_original"]
    /\ UNCHANGED <<callers, inputs, original_side, modified_side, opcodes, op_pos,
                   diff_parts, inserted_tokens, deleted_tokens, replaced_tokens,
                   diff_items, diff_index, outputs>>

InitInjector == InitWith({1}, InjectorPairs)

NextInjector ==
    \E r \in Requests :
        \/ PrepareOriginal(r)
        \/ PrepareModified(r)
        \/ TakeHighlights(r)
        \/ HighlightOriginal(r)
        \/ HighlightModified(r)

SpecInjector == InitInjector /\ [][NextInjector]_vars

(***************************************************************************)
(* _summarize_location as a function of its start_index argument: the      *)
(* leaves of a document of at most MaxBlocks headings and paragraphs are   *)
(* looked up at any offset from OffsetMargin before 0 to OffsetMargin      *)
(* past the end of its flat sequence.                                      *)
(***************************************************************************)
OffsetMargin == 2

ResolverBlocks == SectionBlocks \cup {Block("p", <<Leaf("", <<65, 32, 66>>)>>)}

ResolverDocs == UNION {[1..n -> ResolverBlocks] : n \in 0..MaxBlocks}

ResolverPairs == {<<html, <<>> >> : html \in ResolverDocs}

Offsets(n) == (0 - OffsetMargin)..(n + OffsetMargin)

Resolved(start_index, location) ==
    [called |-> TRUE, start_index |-> start_index, location |-> location]

\* the call _summarize_location(original_soup, original_node_infos, start_index)
Resolve(r) ==
    /\ pc[r] = "align"
    /\ \E start_index \in Offsets(Len(original_tokens[r])) :
          resolved' =
              [resolved EXCEPT ![r] =
                  Resolved(start_index,
                           _summarize_location(original_soup[r], original_node_infos[r],
                                               start_index))]
    /\ pc' = [pc EXCEPT ![r] = "resolved"]
    /\ UNCHANGED <<response, inputs, original_side, modified_side, opcodes, op_pos,
                   loop_locals, outputs>>

InitResolver == InitWith({1}, ResolverPairs)

NextResolver ==
    \E r \in Requests :
        \/ PrepareOriginal(r)
        \/ PrepareModified(r)
        \/ Resolve(r)

SpecResolver == InitResolver /\ [][NextResolver]_vars

(***************************************************************************)
(* The endpoint diff_word_documents around _build_diff: the response it    *)
(* builds from what the call returns.                                      *)
(***************************************************************************)
Literal(chars) == [n \in 1..Len(chars) |-> Chr(chars[n])]

\* "<p>未检测到正文内容。</p>" and "<p>未检测到差异。</p>"
NoBodyMessage ==
    Literal(<<60, 112, 62, 26410, 26816, 27979, 21040, 27491, 25991, 20869,
              23481, 12290, 60, 47, 112, 62>>)

NoDiffMessage ==
    Literal(<<60, 112, 62, 26410, 26816, 27979, 21040, 24046, 24322, 12290,
              60, 47, 112, 62>>)

\* value or default, of Python
Or(value, default) == IF value = <<>> THEN default ELSE value

DiffResponse(original_html_, modified_html_, diff_html_, stats_, diff_items_) ==
    [returned |-> TRUE, original_html |-> original_html_,
     modified_html |-> modified_html_, diff_html |-> diff_html_,
     stats |-> stats_, diff_items |-> diff_items_]

\* the endpoint with the message for both views or for none
Respond_jointly(r) ==
    /\ pc[r] = "done"
    /\ response' =
          [response EXCEPT ![r] =
              IF highlighted_original[r] = <<>> /\ highlighted_modified[r] = <<>>
              THEN DiffResponse(NoBodyMessage, NoBodyMessage,
                                Or(diff_html[r], NoDiffMessage), stats[r], diff_items[r])
              ELSE DiffResponse(highlighted_original[r], highlighted_modified[r],
                                Or(diff_html[r], NoDiffMessage), stats[r], diff_items[r])]
    /\ pc' = [pc EXCEPT ![r] = "responded"]
    /\ UNCHANGED <<resolved, inputs, original_side, modified_side, opcodes, op_pos,
                   loop_locals, outputs>>

Respond(r) ==
    /\ pc[r] = "done"
    /\ response' =
          [response EXCEPT ![r] =
              DiffResponse(Or(highlighted_original[r], NoBodyMessage),
                           Or(highlighted_modified[r], NoBodyMessage),
                           Or(diff_html[r], NoDiffMessage), stats[r], diff_items[r])]
    /\ pc' = [pc EXCEPT ![r] = "responded"]
    /\ UNCHANGED <<resolved, inputs, original_side, modified_side, opcodes, op_pos,
                   loop_locals, outputs>>

NextEndpoint ==
    \E r \in Requests :
        \/ PrepareOriginal(r)
        \/ PrepareModified(r)
        \/ Align(r)
        \/ ClassifyStep(r)
        \/ BuildStats(r)
        \/ HighlightOriginal(r)
        \/ HighlightModified(r)
        \/ Respond(r)

SpecEndpoint == Init /\ [][NextEndpoint]_vars

(***************************************************************************)
(* Texts that html.escape changes: a call on two paragraphs of at most     *)
(* MaxEscaped characters that are a letter, an ampersand or a less-than    *)
(* sign.                                                                   *)
(***************************************************************************)
MaxEscaped == 3

EscapedChars == {65, 38, 60}

EscapedTexts == UNION {[1..n -> EscapedChars] : n \in 0..MaxEscaped}

EscapingPairs == {<<Paragraph(t), Paragraph(u)>> : t \in EscapedTexts, u \in EscapedTexts}

InitEscaping == InitWith({1}, EscapingPairs)

SpecEscaping == InitEscaping /\ [][Next]_vars

(***************************************************************************)
(* _build_diff as a function of its two arguments: the same steps, run     *)
(* on one call's own locals from start to end.                             *)
(***************************************************************************)
RECURSIVE ClassifyAll(_, _, _, _)
ClassifyAll(C, L, ops, n) ==
    IF n > Len(ops) THEN L
    ELSE ClassifyAll(C, classify(C, L, ops[n]), ops, n + 1)

LoopStart ==
    [diff_parts |-> <<>>, inserted_tokens |-> 0, deleted_tokens |-> 0,
     replaced_tokens |-> 0, diff_items |-> <<>>, highlight_map |-> EmptyMap,
     diff_index |-> 1]

Prepared(original_html_, modified_html_) ==
    [original_soup |-> BeautifulSoup(original_html_),
     modified_soup |-> BeautifulSoup(modified_html_),
     original_tokens |-> _prepare_html_tokens(original_html_).tokens,
     modified_tokens |-> _prepare_html_tokens(modified_html_).tokens,
     original_node_infos |-> _prepare_html_tokens(original_html_).node_infos,
     modified_node_infos |-> _prepare_html_tokens(modified_html_).node_infos]

Classified(C) ==
    ClassifyAll(C, LoopStart, get_opcodes(C.original_tokens, C.modified_tokens), 1)

Result(C, L) ==
    [diff_html |-> JoinParts(L.diff_parts),
     stats |-> DiffStats(L.inserted_tokens, L.deleted_tokens, L.replaced_tokens),
     diff_items |-> L.diff_items,
     highlighted_original |->
         _apply_highlights(C.original_soup, C.original_node_infos,
                           L.highlight_map.original).html,
     highlighted_modified |->
         _apply_highlights(C.modified_soup, C.modified_node_infos,
                           L.highlight_map.modified).html]

ResultOf(C) == Result(C, Classified(C))

_build_diff(original_html_, modified_html_) ==
    ResultOf(Prepared(original_html_, modified_html_))

\* what call r returns
Returns(r) ==
    [diff_html |-> diff_html[r], stats |-> stats[r], diff_items |-> diff_items[r],
     highlighted_original |-> highlighted_original[r],
     highlighted_modified |-> highlighted_modified[r]]

(***************************************************************************)
(* Properties.                                                             *)
(***************************************************************************)
Aligned(r) ==
    pc[r] \in {"classify", "highlight_original", "highlight_modified", "done"}

Done(r) == pc[r] = "done"

RECURSIVE ParseDecimal(_)
ParseDecimal(digits) ==
    IF digits = <<>> THEN 0
    ELSE 10 * ParseDecimal(SubSeq(digits, 1, Len(digits) - 1))
         + (digits[Len(digits)] - 48)

\* N of an id diff-N, -1 for any other string
ParseDiffId(id) ==
    IF Len(id) > Len(DiffPrefix) /\ SubSeq(id, 1, Len(DiffPrefix)) = DiffPrefix
       /\ \A n \in (Len(DiffPrefix) + 1)..Len(id) : id[n] \in 48..57
    THEN ParseDecimal(SubSeq(id, Len(DiffPrefix) + 1, Len(id)))
    ELSE -1

IsMarkerOpen(item) ==
    item.k = "open" /\ item.tag = "span" /\ item.attrs.class # <<>>
    /\ item.attrs.class[1] = "diff-marker"

\* positions of the marker elements of a serialised tree
MarkerOpens(html) == {n \in 1..Len(html) : IsMarkerOpen(html[n])}

SpanMarkers(html, id) ==
    {n \in MarkerOpens(html) :
        html[n].attrs.data_diff_id = id /\ ~html[n].attrs.data_diff_placeholder.some}

PlaceholderMarkers(html, id) ==
    {n \in MarkerOpens(html) :
        html[n].attrs.data_diff_id = id /\ html[n].attrs.data_diff_placeholder.some}

NonEqual(ops) == SelectSeq(ops, LAMBDA op : op.tag # "equal")

\* C1: the opcode list used by _build_diff partitions both token sequences:
\* it starts at (0, 0), every opcode starts where the previous one ends, the
\* last one ends at (len(original), len(modified)), and the slices
\* original[i1:i2] (modified[j1:j2]) put together in order give back the
\* whole original (modified) token sequence.
Contiguous(ops, la, lb) ==
    /\ \A n \in 1..Len(ops) :
          /\ ops[n].i1 = (IF n = 1 THEN 0 ELSE ops[n - 1].i2)
          /\ ops[n].j1 = (IF n = 1 THEN 0 ELSE ops[n - 1].j2)
          /\ ops[n].i1 <= ops[n].i2
          /\ ops[n].j1 <= ops[n].j2
    /\ (IF ops = <<>> THEN 0 ELSE ops[Len(ops)].i2) = la
    /\ (IF ops = <<>> THEN 0 ELSE ops[Len(ops)].j2) = lb

Reconstructs(ops, a, b) ==
    /\ Join([n \in 1..Len(ops) |-> Slice(a, ops[n].i1, ops[n].i2)]) = a
    /\ Join([n \in 1..Len(ops) |-> Slice(b, ops[n].j1, ops[n].j2)]) = b

C1_OpcodesPartition ==
    \A r \in Requests :
        Aligned(r) =>
            /\ Contiguous(opcodes[r], Len(original_tokens[r]), Len(modified_tokens[r]))
            /\ Reconstructs(opcodes[r], original_tokens[r], modified_tokens[r])

C1_Witness ==
    \E r \in Requests :
        /\ Done(r)
        /\ Len(opcodes[r]) >= 3
        /\ \E n, m \in 1..Len(opcodes[r]) :
              opcodes[r][n].tag = "insert" /\ opcodes[r][m].tag = "delete"

\* C2: diffing a document against itself gives no DiffItem, three zero
\* stats, and two highlighted outputs that are equal to each other and to
\* the rendering of the document, with no marker element in them.
C2_SelfDiffIsEmpty ==
    \A r \in Requests :
        (Done(r) /\ original_html[r] = modified_html[r]) =>
            /\ diff_items[r] = <<>>
            /\ stats[r] = DiffStats(0, 0, 0)
            /\ highlighted_original[r] = highlighted_modified[r]
            /\ highlighted_original[r] = str(BeautifulSoup(original_html[r]))
            /\ MarkerOpens(highlighted_original[r]) = {}

C2_Witness ==
    \E r \in Requests :
        /\ Done(r)
        /\ original_html[r] = modified_html[r]
        /\ Len(original_node_infos[r]) = 2
        /\ Len(original_tokens[r]) >= 3
        /\ diff_items[r] = <<>>

\* C3: after the injection, the text of the plain fragments and of the
\* markers that are no placeholders, put together in document order, is the
\* concatenation of the side's flat token sequence; the placeholder markers
\* (one no-break space each) are the only text added.
AllNodes(soup) == Join([b \in 1..Len(soup) |-> BlockNodes(soup, b)])

IsPlaceholderNode(node) ==
    node.kind = "marker" /\ node.attrs.data_diff_placeholder.some

SurvivingText(soup) ==
    LET nodes == SelectSeq(AllNodes(soup), LAMBDA node : ~IsPlaceholderNode(node))
    IN Join([n \in 1..Len(nodes) |-> nodes[n].text])

PlaceholdersAreNbsp(soup) ==
    \A n \in 1..Len(AllNodes(soup)) :
        IsPlaceholderNode(AllNodes(soup)[n]) => AllNodes(soup)[n].text = <<Nbsp>>

C3_HighlightRoundTrip ==
    \A r \in Requests :
        /\ pc[r] \in {"highlight_modified", "done"} =>
              /\ SurvivingText(original_soup[r]) = Join(original_tokens[r])
              /\ PlaceholdersAreNbsp(original_soup[r])
        /\ Done(r) =>
              /\ SurvivingText(modified_soup[r]) = Join(modified_tokens[r])
              /\ PlaceholdersAreNbsp(modified_soup[r])

C3_Witness ==
    \E r \in Requests :
        /\ Done(r)
        /\ Len(original_node_infos[r]) = 2
        /\ \E n \in 1..Len(highlight_map[r].original) :
              LET e == highlight_map[r].original[n] IN
              IsSpanEntry(e) /\ e.start < original_node_infos[r][1].end
              /\ e.end > original_node_infos[r][2].start
        /\ \E n \in 1..Len(highlight_map[r].modified) :
              ~IsSpanEntry(highlight_map[r].modified[n])

\* C4: every DiffItem has a marker with its id in both highlighted outputs:
\* an insert item a span marker in highlightedModified and exactly one
\* placeholder marker in highlightedOriginal, a delete item a span marker in
\* highlightedOriginal and exactly one placeholder marker in
\* highlightedModified.
ItemHasMarkers(item, original, modified) ==
    /\ \E n \in MarkerOpens(original) : original[n].attrs.data_diff_id = item.id
    /\ \E n \in MarkerOpens(modified) : modified[n].attrs.data_diff_id = item.id
    /\ item.type = "insert" =>
          /\ SpanMarkers(modified, item.id) # {}
          /\ Cardinality(PlaceholderMarkers(original, item.id)) = 1
    /\ item.type = "delete" =>
          /\ SpanMarkers(original, item.id) # {}
          /\ Cardinality(PlaceholderMarkers(modified, item.id)) = 1

C4_EveryItemIsMarkedOnBothSides ==
    \A r \in Requests :
        Done(r) =>
            \A n \in 1..Len(diff_items[r]) :
                ItemHasMarkers(diff_items[r][n], highlighted_original[r],
                               highlighted_modified[r])

C4_Witness ==
    \E r \in Requests :
        /\ Done(r)
        /\ \E n, m \in 1..Len(diff_items[r]) :
              diff_items[r][n].type = "insert" /\ diff_items[r][m].type = "delete"
        /\ original_node_infos[r] # <<>>

\* C5: the three stats add up to 0 exactly when there is no DiffItem, while
\* the loop runs and in the stats returned.
C5_StatsZeroIffNoItems ==
    \A r \in Requests :
        /\ (inserted_tokens[r] + deleted_tokens[r] + replaced_tokens[r] = 0)
              <=> (diff_items[r] = <<>>)
        /\ pc[r] \in {"highlight_original", "highlight_modified", "done"} =>
              ((stats[r].inserted_tokens + stats[r].deleted_tokens
                + stats[r].replaced_tokens = 0) <=> (diff_items[r] = <<>>))

C5_Witness ==
    \E r \in Requests :
        /\ Done(r)
        /\ Len(diff_items[r]) = 2
        /\ stats[r].inserted_tokens > 0
        /\ stats[r].deleted_tokens > 0

\* C6: the numbers N of the ids diff-N of the returned diffItems increase
\* strictly in list order, whatever the kinds of the items: one counter
\* serves insert, delete and replace items in opcode order.
C6_IdsStrictlyIncreasing ==
    \A r \in Requests :
        /\ \A n \in 1..Len(diff_items[r]) : ParseDiffId(diff_items[r][n].id) >= 1
        /\ \A n, m \in 1..Len(diff_items[r]) :
              n < m => ParseDiffId(diff_items[r][n].id) < ParseDiffId(diff_items[r][m].id)
        /\ Aligned(r) =>
              \A n \in 1..Len(diff_items[r]) :
                  diff_items[r][n].type
                      = NonEqual(SubSeq(opcodes[r], 1, op_pos[r]))[n].tag

C6_Witness ==
    \E r \in Requests :
        /\ Done(r)
        /\ Len(diff_items[r]) >= 2
        /\ diff_items[r][1].type # diff_items[r][2].type

\* the DiffItems made so far: <<call, position in its list>>
ItemsMade == UNION {{<<r, n>> : n \in 1..Len(diff_items[r])} : r \in Requests}

\* C7 as stated: no two DiffItems made in the process share an id, those of
\* two different diff calls included.
C7_IdsProcessUnique ==
    \A p, q \in ItemsMade :
        p # q => diff_items[p[1]][p[2]].id # diff_items[q[1]][q[2]].id

\* C7 as amended: no two DiffItems of one diff call share an id, and every
\* call numbers its items from diff-1 on, so that the first items of any two
\* calls carry the same id.
C7_IdsUniquePerCall ==
    \A r \in Requests :
        /\ \A n, m \in 1..Len(diff_items[r]) :
              n # m => diff_items[r][n].id # diff_items[r][m].id
        /\ diff_items[r] # <<>> => diff_items[r][1].id = DiffId(1)

C7_Witness ==
    /\ \A r \in Requests : Done(r) /\ diff_items[r] # <<>>
    /\ \E r \in Requests :
          Len(diff_items[r]) >= 2 /\ diff_items[r][1].type = "insert"
    /\ diff_items[1][1].id = diff_items[2][1].id

\* C8: whatever the interleaving of the calls, a finished call returns what
\* _build_diff returns for its two documents when it runs alone, and two
\* calls on the same pair of documents return the same.
C8_CallsDoNotInterfere ==
    /\ \A r \in Requests :
          Done(r) => Returns(r) = _build_diff(original_html[r], modified_html[r])
    /\ \A r, q \in Requests :
          (Done(r) /\ Done(q) /\ original_html[r] = original_html[q]
           /\ modified_html[r] = modified_html[q]) => Returns(r) = Returns(q)

C8_Witness ==
    /\ \A r \in Requests : Done(r) /\ Len(diff_items[r]) >= 2
    /\ original_html[1] # original_html[2]

\* C9: the loop step of an opcode with i1 = i2 and j1 = j2, whatever its
\* tag, adds no DiffItem and no highlight entry on either side, and leaves
\* the id counter and the three token counters as they are.
Degenerate(op) == op.i1 = op.i2 /\ op.j1 = op.j2

\* call r takes the step of its next opcode
StepsOver(r) ==
    pc[r] = "classify" /\ op_pos[r] < Len(opcodes[r]) /\ op_pos'[r] = op_pos[r] + 1

SkipsDegenerate(r) ==
    (StepsOver(r) /\ Degenerate(opcodes[r][op_pos[r] + 1])) =>
        /\ diff_items'[r] = diff_items[r]
        /\ highlight_map'[r] = highlight_map[r]
        /\ diff_index'[r] = diff_index[r]
        /\ inserted_tokens'[r] = inserted_tokens[r]
        /\ deleted_tokens'[r] = deleted_tokens[r]
        /\ replaced_tokens'[r] = replaced_tokens[r]

C9_DegenerateSkip == [][\A r \in Requests : SkipsDegenerate(r)]_vars

C9_Witness ==
    \E r \in Requests :
        /\ Done(r)
        /\ Len(opcodes[r]) = 2
        /\ opcodes[r][1].tag = "insert" /\ ~Degenerate(opcodes[r][1])
        /\ opcodes[r][2].tag = "replace" /\ Degenerate(opcodes[r][2])
        /\ Len(diff_items[r]) = 1
        /\ stats[r] = DiffStats(1, 0, 0)

\* C10: the loop step of a replace opcode (not degenerate) adds exactly one
\* DiffItem, of type replace, with the concatenation of original[i1:i2] as
\* originalText and of modified[j1:j2] as modifiedText; it adds a span entry
\* [i1, i2) with the item's id on the original side when i1 # i2 and none
\* otherwise, and a span entry [j1, j2) on the modified side when j1 # j2.
\* <p>A B C</p> against <p>A X C</p> returns one DiffItem (replace, "B",
\* "X"), a span marker on both sides and replacedTokens = 1.
SpanEntryAdded(before, after, lo, hi, id) ==
    IF lo = hi THEN after = before
    ELSE /\ Len(after) = Len(before) + 1
         /\ SubSeq(after, 1, Len(before)) = before
         /\ after[Len(after)].start = lo
         /\ after[Len(after)].end = hi
         /\ after[Len(after)].id = id
         /\ after[Len(after)].type = "replace"
         /\ ~after[Len(after)].placeholder

ReplaceItemAdded(r, op) ==
    /\ Len(diff_items'[r]) = Len(diff_items[r]) + 1
    /\ SubSeq(diff_items'[r], 1, Len(diff_items[r])) = diff_items[r]
    /\ LET item == diff_items'[r][Len(diff_items'[r])] IN
          /\ item.type = "replace"
          /\ item.id = DiffId(diff_index[r])
          /\ item.original_text = Join(Slice(original_tokens[r], op.i1, op.i2))
          /\ item.modified_text = Join(Slice(modified_tokens[r], op.j1, op.j2))
          /\ SpanEntryAdded(highlight_map[r].original, highlight_map'[r].original,
                            op.i1, op.i2, item.id)
          /\ SpanEntryAdded(highlight_map[r].modified, highlight_map'[r].modified,
                            op.j1, op.j2, item.id)

ReplaceStep(r) ==
    (/\ StepsOver(r)
     /\ opcodes[r][op_pos[r] + 1].tag = "replace"
     /\ ~Degenerate(opcodes[r][op_pos[r] + 1]))
        => ReplaceItemAdded(r, opcodes[r][op_pos[r] + 1])

ScenarioReplaceResult(r) ==
    (Done(r) /\ <<original_html[r], modified_html[r]>> = ScenarioReplace) =>
        /\ Len(diff_items[r]) = 1
        /\ diff_items[r][1].type = "replace"
        /\ diff_items[r][1].original_text = <<66>>
        /\ diff_items[r][1].modified_text = <<88>>
        /\ stats[r] = DiffStats(0, 0, 1)
        /\ Cardinality(SpanMarkers(highlighted_original[r], diff_items[r][1].id)) = 1
        /\ Cardinality(SpanMarkers(highlighted_modified[r], diff_items[r][1].id)) = 1

C10_ReplaceMakesOneItem ==
    /\ [][\A r \in Requests : ReplaceStep(r)]_vars
    /\ [](\A r \in Requests : ScenarioReplaceResult(r))

C10_Witness ==
    \E r \in Requests :
        /\ Done(r)
        /\ <<original_html[r], modified_html[r]>> = ScenarioReplace
        /\ Len(diff_items[r]) = 1
        /\ stats[r].replaced_tokens = 1

\* the characters written at the positions lo..hi of a serialised tree
CharsBetween(html, lo, hi) ==
    LET chars == SelectSeq(SubSeq(html, lo, hi), LAMBDA item : item.k = "chr")
    IN [n \in 1..Len(chars) |-> chars[n].c]

\* the position of the closing tag of the marker opened at position n
MarkerClose(html, n) ==
    CHOOSE m \in (n + 1)..Len(html) :
        html[m].k = "close" /\ \A q \in (n + 1)..(m - 1) : html[q].k = "chr"

MarkerText(html, n) == CharsBetween(html, n + 1, MarkerClose(html, n) - 1)

Brave == <<98, 114, 97, 118, 101>>

\* C11: <p>Hello world</p> against <p>Hello brave world</p> returns one
\* DiffItem, an insert with empty originalText and with "brave" and one
\* adjacent space as modifiedText; the stats are 2 inserted, 0 deleted and 0
\* replaced tokens; highlightedModified has a span marker around exactly
\* that text, and highlightedOriginal has exactly one placeholder marker,
\* after "Hello" and before "world".
PlaceholderBetween(html, before, after) ==
    /\ Cardinality(MarkerOpens(html)) = 1
    /\ \A n \in MarkerOpens(html) :
          /\ html[n].attrs.data_diff_placeholder.some
          /\ MarkerText(html, n) = <<Nbsp>>
          /\ LET left == CharsBetween(html, 1, n)
                 right == CharsBetween(html, MarkerClose(html, n), Len(html))
             IN /\ Len(left) >= Len(before)
                /\ SubSeq(left, 1, Len(before)) = before
                /\ Len(right) >= Len(after)
                /\ SubSeq(right, Len(right) - Len(after) + 1, Len(right)) = after
                /\ left \o right = HelloWorld

C11_InsertedWordScenario ==
    \A r \in Requests :
        (Done(r) /\ <<original_html[r], modified_html[r]>> = ScenarioInsert) =>
            /\ Len(diff_items[r]) = 1
            /\ diff_items[r][1].type = "insert"
            /\ diff_items[r][1].original_text = <<>>
            /\ diff_items[r][1].modified_text \in {Brave \o <<32>>, <<32>> \o Brave}
            /\ stats[r] = DiffStats(2, 0, 0)
            /\ Cardinality(MarkerOpens(highlighted_modified[r])) = 1
            /\ \A n \in MarkerOpens(highlighted_modified[r]) :
                  /\ n \in SpanMarkers(highlighted_modified[r], diff_items[r][1].id)
                  /\ MarkerText(highlighted_modified[r], n) = diff_items[r][1].modified_text
            /\ PlaceholderMarkers(highlighted_original[r], diff_items[r][1].id)
                  = MarkerOpens(highlighted_original[r])
            /\ PlaceholderBetween(highlighted_original[r],
                                  SubSeq(HelloWorld, 1, 5), SubSeq(HelloWorld, 7, 11))

C11_Witness ==
    \E r \in Requests :
        /\ Done(r)
        /\ <<original_html[r], modified_html[r]>> = ScenarioInsert
        /\ stats[r].inserted_tokens = 2
        /\ MarkerOpens(highlighted_original[r]) # {}

\* C12: _tokenize_text makes every whitespace character, every CJK
\* ideograph and every punctuation character a token of its own and every
\* maximal run of other characters one token, so that no two adjacent tokens
\* are both runs; the empty string gives no token; "合同A条款" gives
\* 合, 同, A, 条, 款 and "ABC测试" gives ABC, 测, 试.
OwnTokenChars == {32, 46, 21512, 21516, 26465, 27454, 27979, 35797}

IsRun(token) == token # <<>> /\ \A k \in 1..Len(token) : token[k] \notin OwnTokenChars

IsOwnToken(token) == Len(token) = 1 /\ token[1] \in OwnTokenChars

FollowsTokenizerRules(text, tokens) ==
    /\ Join(tokens) = text
    /\ \A n \in 1..Len(tokens) : IsRun(tokens[n]) \/ IsOwnToken(tokens[n])
    /\ \A n \in 1..(Len(tokens) - 1) : ~(IsRun(tokens[n]) /\ IsRun(tokens[n + 1]))

\* the text call r tokenizes: the one text node of its original document
TokenizedText(r) == original_html[r][1].children[1].text

Tokenized(r) == pc[r] \notin {"idle", "prepare_original"}

C12_TokenizerRules ==
    \A r \in Requests :
        Tokenized(r) =>
            /\ FollowsTokenizerRules(TokenizedText(r), original_tokens[r])
            /\ TokenizedText(r) = <<>> =>
                  original_tokens[r] = <<>> /\ _tokenize_text(<<>>) = <<>>
            /\ TokenizedText(r) = ContractAClause =>
                  original_tokens[r]
                      = << <<21512>>, <<21516>>, <<65>>, <<26465>>, <<27454>> >>
            /\ TokenizedText(r) = ABCTest =>
                  original_tokens[r] = << <<65, 66, 67>>, <<27979>>, <<35797>> >>

C12_Witness ==
    \E r \in Requests :
        /\ Done(r)
        /\ TokenizedText(r) = ContractAClause
        /\ Len(original_tokens[r]) = 5

\* the block whose heading names the section of block b: b itself when it
\* is a heading, else the nearest heading before it (0: none)
SectionHeading(html, b) ==
    LET before == {h \in 1..(b - 1) : html[h].tag \in {"h1", "h2", "h3", "h4", "h5", "h6"}}
    IN IF html[b].tag \in {"h1", "h2", "h3", "h4", "h5", "h6"} THEN b
       ELSE IF before = {} THEN 0
       ELSE CHOOSE h \in before : \A g \in before : h >= g

\* the block of the leaf that holds token number start
BlockOfToken(node_infos, start) ==
    LET n == CHOOSE m \in 1..Len(node_infos) :
                node_infos[m].start <= start /\ start < node_infos[m].end
    IN node_infos[n].node[1]

HeadingText(html, h) == get_text(BeautifulSoup(html), h)

\* sectionTitle as the heading's text, whatever its length
WholeTitle(html, h) ==
    IF h = 0 \/ HeadingText(html, h) = <<>> THEN None
    ELSE Some(HeadingText(html, h))

\* sectionTitle as the heading's text cut to the limit
CutTitle(html, h) ==
    IF h = 0 \/ HeadingText(html, h) = <<>> THEN None
    ELSE IF Len(HeadingText(html, h)) <= SectionTitleLimit
    THEN Some(HeadingText(html, h))
    ELSE Some(SubSeq(HeadingText(html, h), 1, SectionTitleLimit - 1) \o <<Ellipsis>>)

\* the sectionTitle of item n of call r on the side where its tokens are
OriginalTitleIs(r, n, Title(_, _)) ==
    LET op == NonEqual(opcodes[r])[n] IN
    op.tag \in {"delete", "replace"} =>
        diff_items[r][n].original_location.section_title
            = Title(original_html[r],
                    SectionHeading(original_html[r],
                                   BlockOfToken(original_node_infos[r], op.i1)))

ModifiedTitleIs(r, n, Title(_, _)) ==
    LET op == NonEqual(opcodes[r])[n] IN
    op.tag \in {"insert", "replace"} =>
        diff_items[r][n].modified_location.section_title
            = Title(modified_html[r],
                    SectionHeading(modified_html[r],
                                   BlockOfToken(modified_node_infos[r], op.j1)))

ScenarioHeadingTitle(r) ==
    (Done(r) /\ <<original_html[r], modified_html[r]>> = ScenarioHeading) =>
        /\ Len(diff_items[r]) = 1
        /\ diff_items[r][1].modified_location.section_title = Some(Clause3)

\* C13 as stated: the sectionTitle of a DiffItem whose start token lies in
\* a heading block is that heading's text, and otherwise the text of the
\* nearest heading before the block; a sentence inserted into the paragraph
\* after <h2>Clause 3</h2> has the modified sectionTitle "Clause 3".
C13_TitleIsHeadingText ==
    \A r \in Requests :
        /\ ScenarioHeadingTitle(r)
        /\ Done(r) =>
              \A n \in 1..Len(diff_items[r]) :
                  OriginalTitleIs(r, n, WholeTitle) /\ ModifiedTitleIs(r, n, WholeTitle)

\* C13 as amended: the sectionTitle is the text of that heading cut to 60
\* characters (the first 59 and an ellipsis when it is longer), and absent
\* when the heading has no text or there is no such heading; the scenario
\* gives "Clause 3".
C13_TitleIsCutHeadingText ==
    \A r \in Requests :
        /\ ScenarioHeadingTitle(r)
        /\ Done(r) =>
              \A n \in 1..Len(diff_items[r]) :
                  OriginalTitleIs(r, n, CutTitle) /\ ModifiedTitleIs(r, n, CutTitle)

C13_Witness ==
    \E r \in Requests :
        /\ Done(r)
        /\ Len(modified_html[r]) = 3
        /\ modified_html[r][1].tag = "h1"
        /\ modified_html[r][2].children[1].text = LongTitle
        /\ modified_html[r][3].tag = "p"
        /\ \E n \in 1..Len(diff_items[r]) :
              /\ diff_items[r][n].type = "insert"
              /\ BlockOfToken(modified_node_infos[r], NonEqual(opcodes[r])[n].j1) = 3
              /\ diff_items[r][n].modified_location.section_title.some
              /\ Len(diff_items[r][n].modified_location.section_title.v)
                    = SectionTitleLimit

\* C14: when the original document has no leaf and the modified one has
\* n > 0 tokens, the call returns exactly one DiffItem, an insert
\* whose modifiedText is all modified tokens put together, with n inserted,
\* 0 deleted and 0 replaced tokens; when the modified document has no leaf
\* and the original one has n > 0 tokens, it returns exactly one delete item
\* holding the whole original, with n deleted tokens.
OneItem(r, type, original_text, modified_text) ==
    /\ Len(diff_items[r]) = 1
    /\ diff_items[r][1].type = type
    /\ diff_items[r][1].original_text = original_text
    /\ diff_items[r][1].modified_text = modified_text

C14_EmptySideDegrades ==
    \A r \in Requests :
        /\ (Done(r) /\ original_node_infos[r] = <<>> /\ modified_tokens[r] # <<>>) =>
              /\ OneItem(r, "insert", <<>>, Join(modified_tokens[r]))
              /\ stats[r] = DiffStats(Len(modified_tokens[r]), 0, 0)
        /\ (Done(r) /\ modified_node_infos[r] = <<>> /\ original_tokens[r] # <<>>) =>
              /\ OneItem(r, "delete", Join(original_tokens[r]), <<>>)
              /\ stats[r] = DiffStats(0, Len(original_tokens[r]), 0)

C14_Witness ==
    \E r \in Requests :
        /\ Done(r)
        /\ original_html[r] = <<>>
        /\ Len(modified_node_infos[r]) = 2
        /\ Len(modified_tokens[r]) = MaxChars
        /\ Len(diff_items[r]) = 1

\* the step of call r adds one item of the type with the two texts, and it
\* carries the next id
ItemAdded(r, type, original_text, modified_text) ==
    /\ Len(diff_items'[r]) = Len(diff_items[r]) + 1
    /\ SubSeq(diff_items'[r], 1, Len(diff_items[r])) = diff_items[r]
    /\ diff_items'[r][Len(diff_items'[r])].type = type
    /\ diff_items'[r][Len(diff_items'[r])].id = DiffId(diff_index[r])
    /\ diff_items'[r][Len(diff_items'[r])].original_text = original_text
    /\ diff_items'[r][Len(diff_items'[r])].modified_text = modified_text

\* the list after is the list before and one entry more, from lo to hi
OneEntryAdded(before, after, lo, hi, id, type, placeholder) ==
    /\ Len(after) = Len(before) + 1
    /\ SubSeq(after, 1, Len(before)) = before
    /\ after[Len(after)].start = lo
    /\ after[Len(after)].end = hi
    /\ after[Len(after)].id = id
    /\ after[Len(after)].type = type
    /\ after[Len(after)].placeholder = placeholder

NextOp(r) == opcodes[r][op_pos[r] + 1]

\* C15: the loop step of an insert opcode with j1 < j2 adds exactly one
\* DiffItem, an insert with empty originalText and the concatenation of
\* modified[j1:j2] as modifiedText, exactly one span entry [j1, j2) on the
\* modified side and exactly one boundary placeholder entry (start = end =
\* i1, placeholder true) on the original side, all three with the same id.
InsertStep(r) ==
    (StepsOver(r) /\ NextOp(r).tag = "insert" /\ NextOp(r).j1 < NextOp(r).j2) =>
        /\ ItemAdded(r, "insert", <<>>,
                     Join(Slice(modified_tokens[r], NextOp(r).j1, NextOp(r).j2)))
        /\ OneEntryAdded(highlight_map[r].modified, highlight_map'[r].modified,
                         NextOp(r).j1, NextOp(r).j2, DiffId(diff_index[r]),
                         "insert", FALSE)
        /\ OneEntryAdded(highlight_map[r].original, highlight_map'[r].original,
                         NextOp(r).i1, NextOp(r).i1, DiffId(diff_index[r]),
                         "insert", TRUE)

C15_InsertMakesOneItem == [][\A r \in Requests : InsertStep(r)]_vars

C15_Witness ==
    \E r \in Requests :
        /\ Done(r)
        /\ \E n \in 1..Len(opcodes[r]) :
              /\ opcodes[r][n].tag = "insert"
              /\ opcodes[r][n].j2 - opcodes[r][n].j1 >= 2
              /\ opcodes[r][n].i1 # opcodes[r][n].j1
        /\ Len(highlight_map[r].original) = 2

\* C16: the loop step of a delete opcode with i1 < i2 adds exactly one
\* DiffItem, a delete with empty modifiedText and the concatenation of
\* original[i1:i2] as originalText, exactly one span entry [i1, i2) on the
\* original side and exactly one boundary placeholder entry anchored at
\* offset j1 on the modified side, all three with the same id.
DeleteStep(r) ==
    (StepsOver(r) /\ NextOp(r).tag = "delete" /\ NextOp(r).i1 < NextOp(r).i2) =>
        /\ ItemAdded(r, "delete",
                     Join(Slice(original_tokens[r], NextOp(r).i1, NextOp(r).i2)), <<>>)
        /\ OneEntryAdded(highlight_map[r].original, highlight_map'[r].original,
                         NextOp(r).i1, NextOp(r).i2, DiffId(diff_index[r]),
                         "delete", FALSE)
        /\ OneEntryAdded(highlight_map[r].modified, highlight_map'[r].modified,
                         NextOp(r).j1, NextOp(r).j1, DiffId(diff_index[r]),
                         "delete", TRUE)

C16_DeleteMakesOneItem == [][\A r \in Requests : DeleteStep(r)]_vars

C16_Witness ==
    \E r \in Requests :
        /\ Done(r)
        /\ \E n \in 1..Len(opcodes[r]) :
              /\ opcodes[r][n].tag = "delete"
              /\ opcodes[r][n].i2 - opcodes[r][n].i1 >= 2
              /\ opcodes[r][n].i1 # opcodes[r][n].j1
        /\ Len(highlight_map[r].modified) = 2

\* the delete items of call r whose opcode ends the modified document
\* (j1 = len(modified_tokens)), as positions in diff_items
DeletesAtEnd(r) ==
    {n \in 1..Len(diff_items[r]) :
        /\ NonEqual(opcodes[r])[n].tag = "delete"
        /\ NonEqual(opcodes[r])[n].j1 = Len(modified_tokens[r])}

\* the entry of the modified side with the id of item n
ModifiedEntry(r, n) ==
    LET entries == SelectSeq(highlight_map[r].modified,
                             LAMBDA e : e.id = diff_items[r][n].id)
    IN entries[1]

\* C17 as stated: for a delete opcode with j1 = len(modified_tokens) the
\* boundary marker of the modified side is anchored at len(modified_tokens)
\* - 1, so that the placeholder stands one token before the end of the
\* modified document.
C17_AnchorClamped ==
    \A r \in Requests :
        Done(r) =>
            \A n \in DeletesAtEnd(r) :
                /\ ModifiedEntry(r, n).start = Max(0, Len(modified_tokens[r]) - 1)
                /\ ModifiedEntry(r, n).end = ModifiedEntry(r, n).start

\* C17 as amended: for a delete opcode with j1 = len(modified_tokens) only
\* the offset of the location lookup is clamped to len(modified_tokens) - 1
\* (modifiedLocation is the location of the last modified token); the
\* boundary entry of the modified side keeps start = end = j1, and its
\* placeholder is the last thing in the modified document, after the last
\* token.
C17_AnchorStaysAtEnd ==
    \A r \in Requests :
        Done(r) =>
            \A n \in DeletesAtEnd(r) :
                /\ ModifiedEntry(r, n).start = Len(modified_tokens[r])
                /\ ModifiedEntry(r, n).end = Len(modified_tokens[r])
                /\ ModifiedEntry(r, n).placeholder
                /\ \A m \in PlaceholderMarkers(highlighted_modified[r], diff_items[r][n].id) :
                      CharsBetween(highlighted_modified[r],
                                   MarkerClose(highlighted_modified[r], m),
                                   Len(highlighted_modified[r])) = <<>>
                /\ modified_tokens[r] # <<>> =>
                      diff_items[r][n].modified_location
                          = _summarize_location(BeautifulSoup(modified_html[r]),
                                                modified_node_infos[r],
                                                Len(modified_tokens[r]) - 1)

C17_Witness ==
    \E r \in Requests :
        /\ Done(r)
        /\ Len(modified_tokens[r]) >= 2
        /\ DeletesAtEnd(r) # {}
        /\ \E n \in DeletesAtEnd(r) :
              PlaceholderMarkers(highlighted_modified[r], diff_items[r][n].id) # {}

\* the sum of Width(op) over the opcodes of ops with the given tag
RECURSIVE SumOf(_)
SumOf(numbers) ==
    IF numbers = <<>> THEN 0 ELSE Head(numbers) + SumOf(Tail(numbers))

SumOver(ops, tag, Width(_)) ==
    SumOf([n \in 1..Len(ops) |-> IF ops[n].tag = tag THEN Width(ops[n]) ELSE 0])

OriginalWidth(op) == op.i2 - op.i1
ModifiedWidth(op) == op.j2 - op.j1
WiderWidth(op) == Max(op.i2 - op.i1, op.j2 - op.j1)

\* the stats that the claim gives for a list of opcodes
StatsOver(ops) ==
    DiffStats(SumOver(ops, "insert", ModifiedWidth),
              SumOver(ops, "delete", OriginalWidth),
              SumOver(ops, "replace", WiderWidth))

\* C18: the stats are exact sums over the opcodes: insertedTokens is the sum
\* of j2 - j1 over the insert opcodes, deletedTokens the sum of i2 - i1 over
\* the delete opcodes, replacedTokens the sum of max(i2 - i1, j2 - j1) over
\* the replace opcodes, and equal opcodes add to none of them; the running
\* totals of the loop are these sums over the opcodes already taken.
C18_StatsAreSums ==
    \A r \in Requests :
        /\ pc[r] = "classify" =>
              DiffStats(inserted_tokens[r], deleted_tokens[r], replaced_tokens[r])
                  = StatsOver(SubSeq(opcodes[r], 1, op_pos[r]))
        /\ Done(r) => stats[r] = StatsOver(opcodes[r])

C18_Witness ==
    \E r \in Requests :
        /\ Done(r)
        /\ \E n \in 1..Len(opcodes[r]) : opcodes[r][n].tag = "equal"
        /\ \E n \in 1..Len(opcodes[r]) :
              /\ opcodes[r][n].tag = "replace"
              /\ opcodes[r][n].j2 - opcodes[r][n].j1 > opcodes[r][n].i2 - opcodes[r][n].i1
        /\ stats[r].replaced_tokens >= 1

\* node reference a comes before node reference b in soup.descendants
RefBefore(a, b) == a[1] < b[1] \/ (a[1] = b[1] /\ a[2] < b[2])

\* the leaf-span invariant of the spans node_infos over the flat sequence
\* tokens of the document html
LeafSpans(html, tokens, node_infos) ==
    /\ \A n \in 1..Len(node_infos) :
          /\ node_infos[n].end > node_infos[n].start
          /\ node_infos[n].end - node_infos[n].start = Len(node_infos[n].tokens)
          /\ node_infos[n].start = (IF n = 1 THEN 0 ELSE node_infos[n - 1].end)
          /\ NodeText(html, node_infos[n].node) # <<>>
          /\ \A m \in 1..(n - 1) : RefBefore(node_infos[m].node, node_infos[n].node)
    /\ Len(tokens) = (IF node_infos = <<>> THEN 0 ELSE node_infos[Len(node_infos)].end)
    /\ tokens = Join([n \in 1..Len(node_infos) |-> node_infos[n].tokens])

ModifiedTokenized(r) == pc[r] \notin {"idle", "prepare_original", "prepare_modified"}

\* C19: the leaf spans returned by _prepare_html_tokens are in document
\* order, each is non-empty with end - start equal to its token count, the
\* first starts at 0, each starts where the one before it ends, the last
\* ends at the flat token count, the flat sequence is the concatenation of
\* the spans' token lists in order, and no span belongs to a leaf with empty
\* text.
C19_LeafSpans ==
    \A r \in Requests :
        /\ Tokenized(r) =>
              LeafSpans(original_html[r], original_tokens[r], original_node_infos[r])
        /\ ModifiedTokenized(r) =>
              LeafSpans(modified_html[r], modified_tokens[r], modified_node_infos[r])

\* three text nodes, the middle one empty, flattened to two spans of which
\* the second does not start at 0
C19_Witness ==
    \E r \in Requests :
        /\ ModifiedTokenized(r)
        /\ Len(descendants(modified_html[r])) = 3
        /\ NodeText(modified_html[r], descendants(modified_html[r])[2]) = <<>>
        /\ Len(modified_node_infos[r]) = 2
        /\ modified_node_infos[r][2].start >= 2
        /\ modified_node_infos[r][2].node = descendants(modified_html[r])[3]

\* the fragments put in the place of the text node of a leaf
Fragments(soup, info) == soup[info.node[1]].children[info.node[2]].nodes

\* what a fragment is: marked or plain, the id it carries, its text
Shape(marked, id, text) == [marked |-> marked, id |-> id, text |-> text]

ShapeOf(node) ==
    IF node.kind = "marker" THEN Shape(TRUE, node.attrs.data_diff_id, node.text)
    ELSE Shape(FALSE, <<>>, node.text)

\* the fragments of a leaf that carry its tokens
TokenFragments(soup, info) ==
    LET nodes == SelectSeq(Fragments(soup, info), LAMBDA node : ~IsPlaceholderNode(node))
    IN [n \in 1..Len(nodes) |-> ShapeOf(nodes[n])]

\* the active entry of the token at index: the span entry that covers it
ActiveEntry(highlights, index) ==
    _build_highlight_lookup(SelectSeq(highlights, IsSpanEntry), index)

\* a boundary marker falls between the tokens index - 1 and index
BoundaryAt(highlights, index) ==
    \E n \in 1..Len(highlights) :
        ~IsSpanEntry(highlights[n]) /\ highlights[n].start = index

\* the indices at which a fragment of the leaf starts
RunStarts(highlights, info) ==
    {info.start}
    \cup {index \in (info.start + 1)..(info.end - 1) :
            \/ ActiveEntry(highlights, index) # ActiveEntry(highlights, index - 1)
            \/ BoundaryAt(highlights, index)}

\* where the run starting at index ends
RunEnd(highlights, info, index) ==
    LET later == {k \in RunStarts(highlights, info) : k > index}
    IN IF later = {} THEN info.end
       ELSE CHOOSE k \in later : \A m \in later : k <= m

\* the runs of the leaf in order, as fragments
Runs(highlights, info) ==
    LET starts == RunStarts(highlights, info)
        nth(n) == CHOOSE k \in starts : Cardinality({m \in starts : m < k}) = n - 1
        run(lo) ==
            Shape(ActiveEntry(highlights, lo) # NoEntry,
                  ActiveEntry(highlights, lo).id,
                  Join(Slice(info.tokens, lo - info.start,
                             RunEnd(highlights, info, lo) - info.start)))
    IN [n \in 1..Cardinality(starts) |-> run(nth(n))]

\* the leaves that hold tokens of the entry
LeavesOf(node_infos, entry) ==
    {n \in 1..Len(node_infos) :
        node_infos[n].start < entry.end /\ entry.start < node_infos[n].end}

\* the markers of the entry in a leaf
MarkersIn(soup, info, entry) ==
    {n \in 1..Len(TokenFragments(soup, info)) :
        /\ TokenFragments(soup, info)[n].marked
        /\ TokenFragments(soup, info)[n].id = entry.id}

\* the injector's result soup for node_infos and highlights
Injected(soup, node_infos, highlights) ==
    /\ \A n \in 1..Len(node_infos) :
          TokenFragments(soup, node_infos[n]) = Runs(highlights, node_infos[n])
    /\ \A e \in 1..Len(highlights) :
          IsSpanEntry(highlights[e]) =>
              /\ \A index \in highlights[e].start..(highlights[e].end - 1) :
                    ActiveEntry(highlights, index) = highlights[e]
              /\ \A n \in 1..Len(node_infos) :
                    Cardinality(MarkersIn(soup, node_infos[n], highlights[e]))
                        = (IF n \in LeavesOf(node_infos, highlights[e]) THEN 1 ELSE 0)

\* C20: in the highlighted trees every token covered by a span entry is
\* inside a marker with that entry's id and every other token is outside
\* any marker; within a leaf the tokens come out as one fragment per run of
\* tokens that have the same active entry (or none) and no boundary marker
\* between them, the last run included; and a span entry covering tokens of
\* k leaves has exactly one marker in each of these k leaves and none
\* elsewhere.
C20_InjectorFragments ==
    \A r \in Requests :
        Done(r) =>
            /\ Injected(original_soup[r], original_node_infos[r], highlight_map[r].original)
            /\ Injected(modified_soup[r], modified_node_infos[r], highlight_map[r].modified)

\* a span entry over two leaves, in a leaf that also has a plain fragment
C20_Witness ==
    \E r \in Requests :
        /\ Done(r)
        /\ \E e \in 1..Len(highlight_map[r].original) :
              /\ IsSpanEntry(highlight_map[r].original[e])
              /\ Cardinality(LeavesOf(original_node_infos[r], highlight_map[r].original[e])) = 2
              /\ \E n \in LeavesOf(original_node_infos[r], highlight_map[r].original[e]) :
                    Len(TokenFragments(original_soup[r], original_node_infos[r][n])) = 2

\* the positions in a fragment list of the placeholder markers with the id
PlaceholdersOf(fragments, id) ==
    {n \in 1..Len(fragments) :
        IsPlaceholderNode(fragments[n]) /\ fragments[n].attrs.data_diff_id = id}

\* the text of the tokens emitted before position n of a fragment list
TextBefore(fragments, n) ==
    LET before == SelectSeq(SubSeq(fragments, 1, n - 1),
                            LAMBDA node : ~IsPlaceholderNode(node))
    IN Join([m \in 1..Len(before) |-> before[m].text])

\* the leaf in which a boundary entry anchored at offset is rendered: the
\* first leaf for offset 0, else the leaf holding the token offset - 1
HomeLeaf(node_infos, offset) ==
    IF offset = 0 THEN 1
    ELSE CHOOSE m \in 1..Len(node_infos) :
            node_infos[m].start < offset /\ offset <= node_infos[m].end

\* boundary entry e of highlights is rendered once, in its home leaf, after
\* the tokens before its offset and before the others
RenderedInPlace(soup, node_infos, highlights, e) ==
    LET entry == highlights[e]
        home == HomeLeaf(node_infos, entry.start)
        fragments == Fragments(soup, node_infos[home])
        at == CHOOSE n \in PlaceholdersOf(fragments, entry.id) : TRUE
    IN /\ Cardinality(PlaceholdersOf(AllNodes(soup), entry.id)) = 1
       /\ Cardinality(PlaceholdersOf(fragments, entry.id)) = 1
       /\ TextBefore(fragments, at)
             = Join(SubSeq(node_infos[home].tokens, 1,
                           entry.start - node_infos[home].start))
       /\ \A d \in 1..(e - 1) :
             (~IsSpanEntry(highlights[d]) /\ highlights[d].start = entry.start) =>
                 \E n \in PlaceholdersOf(fragments, highlights[d].id) : n < at

BoundariesInPlace(html, soup, node_infos, highlights) ==
    node_infos # <<>> =>
        /\ \A e \in 1..Len(highlights) :
              ~IsSpanEntry(highlights[e]) => RenderedInPlace(soup, node_infos, highlights, e)
        /\ Len(soup) = Len(html)

\* C21: in the highlighted trees of a side with leaves every boundary entry
\* is one placeholder marker: an entry at offset 0 stands before the first
\* token of the first leaf, an entry at offset k > 0 after the token k - 1
\* and before the token k, in the leaf of the token k - 1 and nowhere else,
\* entries of one offset stand in their insertion order, and no marker is
\* appended at the end of the document.
C21_BoundariesInPlace ==
    \A r \in Requests :
        Done(r) =>
            /\ BoundariesInPlace(original_html[r], original_soup[r],
                                 original_node_infos[r], highlight_map[r].original)
            /\ BoundariesInPlace(modified_html[r], modified_soup[r],
                                 modified_node_infos[r], highlight_map[r].modified)

\* two placeholders at the seam of the two leaves of the original document
C21_Witness ==
    \E r \in Requests :
        /\ Done(r)
        /\ Len(original_node_infos[r]) = 2
        /\ Len(highlight_map[r].original) = 2
        /\ \A e \in 1..2 :
              /\ ~IsSpanEntry(highlight_map[r].original[e])
              /\ highlight_map[r].original[e].start = original_node_infos[r][1].end
        /\ Len(Fragments(original_soup[r], original_node_infos[r][1])) = 3

\* the boundary entries whose anchor is met by no leaf, by offset and then
\* in list order
LeftOver(node_infos, highlights) ==
    SortedByStart(SelectSeq(highlights,
        LAMBDA e : /\ ~IsSpanEntry(e)
                   /\ \A n \in 1..Len(node_infos) :
                         e.start < node_infos[n].start \/ e.start > node_infos[n].end))

\* the last Len(entries) of nodes are the placeholder markers of entries
EndsWithMarkers(nodes, entries) ==
    /\ Len(nodes) >= Len(entries)
    /\ \A n \in 1..Len(entries) :
          LET node == nodes[Len(nodes) - Len(entries) + n]
          IN IsPlaceholderNode(node) /\ node.attrs.data_diff_id = entries[n].id

\* the block of the last leaf
LastLeafBlock(node_infos) == node_infos[Len(node_infos)].node[1]

Rank(step) ==
    CASE step = "idle" -> 0
      [] step = "prepare_original" -> 1
      [] step = "prepare_modified" -> 2
      [] step = "align" -> 3
      [] step = "classify" -> 4
      [] step = "highlight_original" -> 5
      [] step = "highlight_modified" -> 6
      [] step = "done" -> 7
      [] OTHER -> 8

\* both sides of call r are flattened in full
BothFlattened(r) ==
    /\ original_tokens[r] = _prepare_html_tokens(original_html[r]).tokens
    /\ original_node_infos[r] = _prepare_html_tokens(original_html[r]).node_infos
    /\ modified_tokens[r] = _prepare_html_tokens(modified_html[r]).tokens
    /\ modified_node_infos[r] = _prepare_html_tokens(modified_html[r]).node_infos

\* every opcode of call r is classified
AllClassified(r) ==
    /\ op_pos[r] = Len(opcodes[r])
    /\ Len(diff_items[r]) = Len(NonEqual(opcodes[r]))

\* what a step of the system may do to call r
OrderedStep(r) ==
    /\ Rank(pc'[r]) \in {Rank(pc[r]), Rank(pc[r]) + 1}
    /\ opcodes'[r] # opcodes[r] => pc[r] = "align"
    /\ (pc[r] = "align" /\ pc'[r] # "align") => BothFlattened(r)
    /\ Rank(pc[r]) >= 3 =>
          /\ original_tokens'[r] = original_tokens[r]
          /\ original_node_infos'[r] = original_node_infos[r]
          /\ modified_tokens'[r] = modified_tokens[r]
          /\ modified_node_infos'[r] = modified_node_infos[r]
    /\ (pc[r] = "highlight_original" /\ pc'[r] # pc[r]) => AllClassified(r)
    /\ Rank(pc[r]) >= 5 =>
          /\ op_pos'[r] = op_pos[r]
          /\ diff_items'[r] = diff_items[r]
          /\ highlight_map'[r] = highlight_map[r]
    /\ original_soup'[r] # original_soup[r] =>
          pc[r] \in {"prepare_original", "highlight_original"}
    /\ modified_soup'[r] # modified_soup[r] =>
          pc[r] \in {"prepare_modified", "highlight_modified"}
    /\ highlighted_original'[r] # highlighted_original[r] => pc[r] = "highlight_original"
    /\ highlighted_modified'[r] # highlighted_modified[r] => pc[r] = "highlight_modified"

\* C23: within one call both sides are flattened in full before the aligner
\* runs and stay as they are; every opcode is classified, with its location
\* lookups, before the injection of either tree starts, and no item, entry
\* or location is made after that; each tree is injected in one step of its
\* own, once, the original tree first, and nothing of a tree changes after
\* its injection.
C23_PipelineOrder == [][\A r \in Requests : OrderedStep(r)]_vars

\* a call that has classified a change and injected both trees
C23_Witness ==
    \E r \in Requests :
        /\ Done(r)
        /\ diff_items[r] # <<>>
        /\ original_soup[r] # BeautifulSoup(original_html[r])
        /\ modified_soup[r] # BeautifulSoup(modified_html[r])

\* the leaves whose range [start, end) contains the offset
Containing(node_infos, offset) ==
    {n \in 1..Len(node_infos) :
        node_infos[n].start <= offset /\ offset < node_infos[n].end}

\* the leaves that start at or before the offset
StartingBy(node_infos, offset) ==
    {n \in 1..Len(node_infos) : node_infos[n].start <= offset}

\* the leaf of the lookup chain for the offset, 0 when there is none
ChainLeaf(node_infos, offset) ==
    IF Containing(node_infos, offset) # {}
    THEN CHOOSE n \in Containing(node_infos, offset) : TRUE
    ELSE IF Containing(node_infos, offset - 1) # {}
    THEN CHOOSE n \in Containing(node_infos, offset - 1) : TRUE
    ELSE IF StartingBy(node_infos, offset) # {}
    THEN CHOOSE n \in StartingBy(node_infos, offset) :
            \A m \in StartingBy(node_infos, offset) : n >= m
    ELSE 0

\* the location of leaf n: that of an offset inside it
LeafLocation(soup, node_infos, n) ==
    _summarize_location(soup, node_infos, node_infos[n].start)

\* the block of the node has no text and its heading, if any, has none
NothingToSay(soup, node) ==
    LET block == _find_block_node(soup, node)
    IN /\ TextOf(soup, block) = <<>>
       /\ TextOf(soup, HeadingOf(soup, node, block)) = <<>>

\* call r has looked up an offset among the leaves of a document that has some
ResolvedAmongLeaves(r) == resolved[r].called /\ original_node_infos[r] # <<>>

\* C24: with a non-empty leaf list _summarize_location resolves start_index
\* to the leaf whose range contains it, else to the leaf whose range
\* contains start_index - 1, else to the last leaf that starts at or before
\* it; it returns null only when no leaf is resolved or the resolved leaf
\* has neither a block summary nor a section title.
C24_LookupChain ==
    \A r \in Requests :
        ResolvedAmongLeaves(r) =>
            LET leaf == ChainLeaf(original_node_infos[r], resolved[r].start_index)
            IN /\ leaf # 0 =>
                     resolved[r].location
                         = LeafLocation(original_soup[r], original_node_infos[r], leaf)
               /\ resolved[r].location.is_none =>
                     \/ leaf = 0
                     \/ NothingToSay(original_soup[r], original_node_infos[r][leaf].node)
               /\ ~resolved[r].location.is_none =>
                     \/ resolved[r].location.section_title.some
                     \/ resolved[r].location.block_summary.some

\* the offset at the end of the flat sequence of a document of three leaves,
\* resolved to the third, which has another location than the second
C24_Witness ==
    \E r \in Requests :
        /\ ResolvedAmongLeaves(r)
        /\ Len(original_node_infos[r]) = 3
        /\ resolved[r].start_index = Len(original_tokens[r])
        /\ ~resolved[r].location.is_none
        /\ resolved[r].location
              # LeafLocation(original_soup[r], original_node_infos[r], 2)

\* C25 as stated: with a non-empty leaf list every start_index is resolved
\* to a leaf, a negative one to the first leaf and one past the end of the
\* flat sequence to the last leaf.
C25_OffsetsClamped ==
    \A r \in Requests :
        ResolvedAmongLeaves(r) =>
            /\ resolved[r].start_index < 0 =>
                  resolved[r].location
                      = LeafLocation(original_soup[r], original_node_infos[r], 1)
            /\ resolved[r].start_index > Len(original_tokens[r]) =>
                  resolved[r].location
                      = LeafLocation(original_soup[r], original_node_infos[r],
                                     Len(original_node_infos[r]))

\* C25 as amended: with a non-empty leaf list a start_index past the end of
\* the flat sequence is resolved to the last leaf, while a negative
\* start_index is resolved to no leaf and the result is null; the call
\* returns in both cases.
C25_PastEndClampedNegativeNull ==
    \A r \in Requests :
        ResolvedAmongLeaves(r) =>
            /\ resolved[r].start_index < 0 => resolved[r].location = NoLocation
            /\ resolved[r].start_index > Len(original_tokens[r]) =>
                  resolved[r].location
                      = LeafLocation(original_soup[r], original_node_infos[r],
                                     Len(original_node_infos[r]))

\* a negative offset looked up in a document whose first leaf has a location
C25_Witness ==
    \E r \in Requests :
        /\ ResolvedAmongLeaves(r)
        /\ resolved[r].start_index < 0
        /\ resolved[r].location = NoLocation
        /\ LeafLocation(original_soup[r], original_node_infos[r], 1) # NoLocation

\* C26 as stated: the endpoint gives the fallback message for the original
\* and the modified view when both rendered outputs are empty, and for
\* neither view when at least one rendered output is not empty.
C26_MessageForBothOrNone ==
    \A r \in Requests :
        response[r].returned =>
            IF highlighted_original[r] = <<>> /\ highlighted_modified[r] = <<>>
            THEN /\ response[r].original_html = NoBodyMessage
                 /\ response[r].modified_html = NoBodyMessage
            ELSE /\ response[r].original_html # NoBodyMessage
                 /\ response[r].modified_html # NoBodyMessage

\* C26 as amended: the endpoint gives the fallback message for a view
\* exactly when the rendered output of that view is empty, and the rendered
\* output otherwise; so for both views when both are empty, and for one
\* view when only that one is empty.
C26_MessagePerView ==
    \A r \in Requests :
        response[r].returned =>
            /\ response[r].original_html
                  = (IF highlighted_original[r] = <<>> THEN NoBodyMessage
                     ELSE highlighted_original[r])
            /\ response[r].modified_html
                  = (IF highlighted_modified[r] = <<>> THEN NoBodyMessage
                     ELSE highlighted_modified[r])

\* a response with the message for the original view only
C26_Witness ==
    \E r \in Requests :
        /\ response[r].returned
        /\ highlighted_original[r] = <<>>
        /\ highlighted_modified[r] # <<>>
        /\ response[r].original_html = NoBodyMessage
        /\ response[r].modified_html = highlighted_modified[r]

\* the tokens are not empty and their concatenation is the text
Lossless(text, tokens) ==
    /\ \A n \in 1..Len(tokens) : tokens[n] # <<>>
    /\ Join(tokens) = text

\* C27: tokenization is lossless: no token returned by _tokenize_text(t) is
\* empty and the tokens in order concatenate to t, so the tokens of a leaf
\* span concatenate to the text of its node.
C27_TokenizationLossless ==
    \A r \in Requests :
        Tokenized(r) =>
            /\ Lossless(TokenizedText(r), _tokenize_text(TokenizedText(r)))
            /\ \A n \in 1..Len(original_node_infos[r]) :
                  Lossless(NodeText(original_html[r], original_node_infos[r][n].node),
                           original_node_infos[r][n].tokens)

\* a text of a run of two letters and a character that is its own token
C27_Witness ==
    \E r \in Requests :
        /\ Tokenized(r)
        /\ Len(TokenizedText(r)) = 3
        /\ Len(original_node_infos[r]) = 1
        /\ Len(original_node_infos[r][1].tokens) = 2
        /\ Len(original_node_infos[r][1].tokens[1]) = 2

\* the entries of a highlight list do not conflict
NoConflict(highlights) ==
    \A n \in 1..Len(highlights) : \A m \in 1..Len(highlights) :
        LET e == highlights[n]
            f == highlights[m]
        IN /\ (n < m /\ IsSpanEntry(e) /\ IsSpanEntry(f)) => e.end <= f.start
           /\ (IsSpanEntry(e) /\ ~IsSpanEntry(f)) =>
                 (f.start < e.start \/ f.start > e.end)
           /\ (n # m /\ ~IsSpanEntry(e) /\ ~IsSpanEntry(f)) => e.start # f.start

\* two opcodes that are not equal opcodes have an equal opcode of at least
\* one token between them
SeparatedByEqual(ops) ==
    \A n \in 1..(Len(ops) - 1) :
        ops[n].tag # "equal" =>
            /\ ops[n + 1].tag = "equal"
            /\ ops[n + 1].i2 > ops[n + 1].i1
            /\ ops[n + 1].j2 > ops[n + 1].j1

\* C28: on each side the highlight entries built by one call do not
\* conflict: the span entries are pairwise disjoint and in increasing order
\* of offset, no boundary entry lies inside a span entry or at its start or
\* end, and no two boundary entries have the same offset; two opcodes other
\* than equal are always separated by an equal opcode of at least one token.
C28_EntriesDoNotConflict ==
    \A r \in Requests :
        /\ NoConflict(highlight_map[r].original)
        /\ NoConflict(highlight_map[r].modified)
        /\ SeparatedByEqual(opcodes[r])

\* a call with a boundary entry and a span entry on its original side
C28_Witness ==
    \E r \in Requests :
        /\ Done(r)
        /\ Len(highlight_map[r].original) = 2
        /\ \E n \in 1..2 : ~IsSpanEntry(highlight_map[r].original[n])
        /\ \E n \in 1..2 : IsSpanEntry(highlight_map[r].original[n])

\* the entries of a side name items of the call, each with the item's type,
\* the number of its id and the role of the side
EntriesConsistent(items, highlights, role) ==
    \A e \in 1..Len(highlights) :
        /\ Cardinality({n \in 1..Len(items) : items[n].id = highlights[e].id}) = 1
        /\ \A n \in 1..Len(items) :
              items[n].id = highlights[e].id =>
                  /\ highlights[e].type = items[n].type
                  /\ highlights[e].number = n
        /\ highlights[e].number = ParseDiffId(highlights[e].id)
        /\ highlights[e].role = role

\* the markers of a tree carry what the entries of its side carry
MarkersConsistent(items, soup, role) ==
    \A m \in 1..Len(AllNodes(soup)) :
        AllNodes(soup)[m].kind = "marker" =>
            LET attrs == AllNodes(soup)[m].attrs
            IN \E n \in 1..Len(items) :
                  /\ attrs.data_diff_id = items[n].id
                  /\ attrs.data_diff_type = items[n].type
                  /\ attrs.data_diff_role = role
                  /\ attrs.data_diff_number = Some(Decimal(n))

\* C29: the diff items of one call carry the ids diff-1, diff-2, ..., diff-n
\* in this order; every highlight entry of either side carries the id of
\* exactly one of these items and that item's type, its number is the
\* number in its id and its role is the side of its list; the markers in
\* the highlighted trees carry the same id, type, role and number.
C29_IdsGaplessAndConsistent ==
    \A r \in Requests :
        /\ \A n \in 1..Len(diff_items[r]) : diff_items[r][n].id = DiffId(n)
        /\ EntriesConsistent(diff_items[r], highlight_map[r].original, "original")
        /\ EntriesConsistent(diff_items[r], highlight_map[r].modified, "modified")
        /\ Done(r) =>
              /\ MarkersConsistent(diff_items[r], original_soup[r], "original")
              /\ MarkersConsistent(diff_items[r], modified_soup[r], "modified")

\* a call with two items and a marker of the second in each tree
C29_Witness ==
    \E r \in Requests :
        /\ Done(r)
        /\ Len(diff_items[r]) = 2
        /\ \E n \in MarkerOpens(highlighted_original[r]) :
              highlighted_original[r][n].attrs.data_diff_id = DiffId(2)
        /\ \E n \in MarkerOpens(highlighted_modified[r]) :
              highlighted_modified[r][n].attrs.data_diff_id = DiffId(2)

\* what encloses position n of a serialised view: "ins", "del", or "" for
\* text outside both
Enclosing(html, n) ==
    LET tags == {m \in 1..(n - 1) : html[m].k # "chr"}
        last == CHOOSE m \in tags : \A t \in tags : m >= t
    IN IF tags = {} THEN ""
       ELSE IF html[last].k = "open" THEN html[last].tag ELSE ""

\* the characters of the view outside <ins> and <del> and inside the
\* elements of the given kind, in order
ViewOf(html, kind) ==
    LET kept == {n \in 1..Len(html) :
                    html[n].k = "chr" /\ Enclosing(html, n) \in {"", kind}}
        nth(n) == CHOOSE k \in kept : Cardinality({m \in kept : m < k}) = n - 1
    IN [n \in 1..Cardinality(kept) |-> html[nth(n)].c]

\* C30: the plain parts of diff_html together with the contents of its
\* <ins> parts are, in order, the escaped modified tokens; the plain parts
\* together with the contents of its <del> parts are the escaped original
\* tokens; and every <ins> and <del> carries the id of a returned diff item.
C30_DiffHtmlConsistent ==
    \A r \in Requests :
        Done(r) =>
            /\ ViewOf(diff_html[r], "ins") = _escape_tokens(modified_tokens[r])
            /\ ViewOf(diff_html[r], "del") = _escape_tokens(original_tokens[r])
            /\ \A n \in 1..Len(diff_html[r]) :
                  diff_html[r][n].k = "open" =>
                      /\ diff_html[r][n].tag \in {"ins", "del"}
                      /\ \E m \in 1..Len(diff_items[r]) :
                            diff_items[r][m].id = diff_html[r][n].attrs.data_diff_id

\* a view with a plain part that escaping changed, a <del> and an <ins>
C30_Witness ==
    \E r \in Requests :
        /\ Done(r)
        /\ diff_html[r] # <<>>
        /\ diff_html[r][1] = Chr(38)
        /\ Len(_escape_tokens(original_tokens[r])) > Len(Join(original_tokens[r]))
        /\ \E n \in 1..Len(diff_html[r]) :
              diff_html[r][n].k = "open" /\ diff_html[r][n].tag = "ins"
        /\ \E n \in 1..Len(diff_html[r]) :
              diff_html[r][n].k = "open" /\ diff_html[r][n].tag = "del"

=============================================================================
